---- MODULE Spec2Model ----
(***************************************************************************)
(* Verification model of the turbo-geth historical state access layer:     *)
(*   - the storage ChangeSet codec   (common/changeset, src/unnamed/part_000)*)
(*   - the history index generator   (ethdb, src/unnamed/part_002)          *)
(*   - the as-of query engine        (GetAsOf / WalkAsOf, exercised by      *)
(*                                    src/core/state/history_test.go)       *)
(* Byte strings are sequences over 0..255; Go's 0-based half-open slices    *)
(* b[lo:hi] are written Slice(b, lo, hi).  uint64 values are kept as their  *)
(* 8-byte big-endian image so that bitwise complement keeps its full width. *)
(***************************************************************************)
EXTENDS Integers, Sequences, FiniteSets, TLC

VARIABLES
    \* ---- ChangeSet codec (SpecCodec)
    cs,          \* the ChangeSet handed to EncodeStorage: sequence of [Key, Value]
    enc,         \* the bytes EncodeStorage produced
    dec,         \* the result of DecodeStorage(enc): [err, Changes]
    walked,      \* the result of StorageChangeSetBytes(enc).Walk: [err, Changes]
    aborted,     \* a Walk whose callback fails at call `at`: [at, res]
    finds,       \* the results of StorageChangeSetBytes(enc).Find, per (addrHash, keyHash)
    cpc,         \* position of the codec run
    \* ---- history index generator (SpecIndex)
    csTable,     \* change-set table: csTable[b + 1] = entity keys changed in block b
    index,       \* on-disk index bucket: set of chunks [key, first, blocks]
    cache,       \* ig.cache: entity key -> sequence of chunks (sequences of blocks)
    currentKey,  \* generateIndex's currentKey: -1 for []byte{}, else a block number
    stop,        \* generateIndex's stop flag of the running walk
    cursor,      \* next change-set key the running db.Walk will deliver
    gpc,         \* position of generateIndex
    runs,        \* number of generateIndex runs started
    \* ---- as-of queries (SpecAsOf)
    plan,        \* the commits to come: plan[b + 1] = keys the block b changes
    blockNr,     \* tds.blockNr: the block the writer commits next
    current,     \* current-state table: key -> value
    changes,     \* change-set table with pre-images: block -> (key -> value)
    hindex,      \* history index bucket written by the block writer
    timeline,    \* ghost: per key, the sequence of [block, pre] changes in commit order
    \* ---- WalkAsOf merge walk (SpecWalk)
    wState,      \* current-state bucket of the walk scenario: key -> value
    wHist,       \* history bucket of the walk scenario: set of [key, block, val]
    wBlock,      \* the as-of block of the running walk
    wOut,        \* the (key, value) pairs delivered to the callback so far
    wPos,        \* the start key and the two cursors of the merge: [from, k, h]
    wpc,         \* position of the walk
    \* ---- index width selection (SpecWidth)
    dictSize,    \* number of entries of an address-hash dictionary
    idxWidth,    \* bytes per dictionary index chosen for it; 0 before the choice
    \* ---- block writer over storage keys (SpecCommit)
    pending,     \* the storage writes of the block so far: [a, k, original, value]
    stateBucket, \* CurrentStateBucket: storage key id -> value
    csBucket,    \* StorageChangeSetBucket: block number -> encoded change-set
    histBucket,  \* StorageHistoryBucket: set of index chunks
    wrpc,        \* position of the block writer
    \* ---- unwinding (SpecUnwind)
    unwound,     \* the blocks deleteTimestamp was applied to
    \* ---- state dumper (SpecDump)
    dump,        \* Dumper.dump's run: its arguments, counters, results
    \* ---- key-value cursors (SpecCursor)
    kv,          \* a bucket, the transaction's context and the running cursor
    \* ---- witness stack machine (SpecWitness)
    wit,         \* instruction queue, stack and position of the machine
    \* ---- experiment flags (SpecFlags)
    flags,       \* getNodeData, the init flag and the callers' positions
    \* ---- staged sync (SpecStage)
    stage        \* stage progress and invalidation records, batch, cancel channel

codecVars == <<cs, enc, dec, walked, aborted, finds, cpc>>
indexVars == <<csTable, index, cache, currentKey, stop, cursor, gpc, runs>>
asofVars  == <<plan, blockNr, current, changes, hindex, timeline>>
walkVars  == <<wState, wHist, wBlock, wOut, wPos, wpc>>
widthVars == <<dictSize, idxWidth>>
commitVars == <<pending, stateBucket, csBucket, histBucket, wrpc>>
unwindVars == <<unwound>>
\* the variables of the specifications of the change-set codec, the index and
\* the as-of reads
storeVars == <<codecVars, indexVars, asofVars, walkVars, widthVars, commitVars>>
lateVars == <<dump, kv, wit, flags, stage>>
vars == <<storeVars, unwindVars, lateVars>>

(***************************************************************************)
(* Byte helpers (encoding/binary, big-endian)                              *)
(***************************************************************************)
Slice(b, lo, hi) == SubSeq(b, lo + 1, hi)

Zeros(n) == [i \in 1..n |-> 0]

PutUint16(n) == <<(n \div 256) % 256, n % 256>>

PutUint32(n) == <<(n \div 16777216) % 256, (n \div 65536) % 256, (n \div 256) % 256, n % 256>>

Uint16(b) == b[1] * 256 + b[2]

Uint32(b) == b[1] * 16777216 + b[2] * 65536 + b[3] * 256 + b[4]

\* ^x on the 8-byte image of a uint64
Not64(b) == [i \in 1..Len(b) |-> 255 - b[i]]

HashLength == 32

IncarnationLength == 8

\* common.Hash{h}: first byte h, the rest zero
Hash(h) == <<h>> \o Zeros(HashLength - 1)

\* DefaultIncarnation = ^uint64(1), as 8 big-endian bytes
DefaultIncarnation == <<255, 255, 255, 255, 255, 255, 255, 254>>

\* 8-byte image of a small uint64
U64(n) == Zeros(4) \o PutUint32(n)

\* dbutils.GenerateCompositeStorageKey: addrHash + ^incarnation + keyHash
StorageKey(a, inc, k) == Hash(a) \o Not64(inc) \o Hash(k)

RECURSIVE BytesLess(_, _)
\* bytes.Compare(x, y) < 0
BytesLess(x, y) ==
    IF Len(y) = 0 THEN FALSE
    ELSE IF Len(x) = 0 THEN TRUE
    ELSE IF x[1] # y[1] THEN x[1] < y[1]
    ELSE BytesLess(Tail(x), Tail(y))

RECURSIVE Insert(_, _)
Insert(s, c) ==
    IF s = <<>> THEN <<c>>
    ELSE IF BytesLess(c.Key, s[1].Key) THEN <<c>> \o s
    ELSE <<s[1]>> \o Insert(Tail(s), c)

RECURSIVE SortChanges(_)
\* sort.Sort(s): ascending by Key
SortChanges(s) == IF s = <<>> THEN <<>> ELSE Insert(SortChanges(Tail(s)), s[1])

storageEnodingStartElem == 4

storageEnodingLengthOfNumOfElements == 4

storageEnodingLengthOfDict == 2

storageEnodingLengthOfNumTypeOfElements == 2

\* a width selection whose one-byte range ends two sizes later
getNumOfBytesByLenNarrow(n) ==
    IF n < 257 THEN 1
    ELSE IF n < 65535 THEN 2
    ELSE 4

\* n < 4294967295 written without a literal above 2^31
getNumOfBytesByLen(n) ==
    IF n < 255 THEN 1
    ELSE IF n < 65535 THEN 2
    ELSE IF (n \div 65536 < 65535) \/ (n \div 65536 = 65535 /\ n % 65536 < 65535) THEN 4
    ELSE 8

\* the bytes writeKeyRow stores into a row of the given width; "panic" otherwise
writeKeyRow(id, width) ==
    CASE width = 1 -> <<id % 256>>
      [] width = 2 -> PutUint16(id % 65536)
      [] width = 4 -> PutUint32(id)
      [] width = 8 -> Zeros(4) \o PutUint32(id)
      [] OTHER -> "panic"

getUint32(row) ==
    CASE Len(row) = 1 -> row[1]
      [] Len(row) = 2 -> Uint16(row)
      [] Len(row) = 4 -> Uint32(row)
      [] Len(row) = 8 -> Uint32(SubSeq(row, 5, 8))
      [] OTHER -> -1

(***************************************************************************)
(* EncodeStorage                                                           *)
(***************************************************************************)
\* a lookup that never finds the address-hash
IndexOfNone(list, h, i) == 0 - 1

RECURSIVE IndexOf(_, _, _)
\* position (0-based) of h in the list, -1 when absent
IndexOf(list, h, i) ==
    IF i > Len(list) THEN -1
    ELSE IF list[i] = h THEN i - 1
    ELSE IndexOf(list, h, i + 1)

AddrOf(key) == Slice(key, 0, HashLength)

IncOf(key) == Slice(key, HashLength, HashLength + IncarnationLength)

KeyHashOf(key) == Slice(key, HashLength + IncarnationLength, 2 * HashLength + IncarnationLength)

\* the 12-byte exception record written for the address-hash first seen at element i
ExceptionRecord(i, dictIdx, incarnation) == PutUint32(i) \o Not64(incarnation)

RECURSIVE CollectAddrs(_, _, _)
\* first loop of EncodeStorage: addrHashesMap / addrHashList (as the list of
\* address-hashes in first-seen order) and notDefaultIncarnationList
CollectAddrs(ch, i, acc) ==
    IF i >= Len(ch) THEN acc
    ELSE LET addrHash == AddrOf(ch[i + 1].Key)
             incarnation == Not64(IncOf(ch[i + 1].Key))
         IN IF IndexOf(acc.dict, addrHash, 1) >= 0
            THEN CollectAddrs(ch, i + 1, acc)
            ELSE CollectAddrs(ch, i + 1,
                   [dict |-> Append(acc.dict, addrHash),
                    notDef |-> IF incarnation # DefaultIncarnation
                               THEN acc.notDef \o ExceptionRecord(i, Len(acc.dict), incarnation)
                               ELSE acc.notDef])

RECURSIVE Flatten(_)
Flatten(ss) == IF ss = <<>> THEN <<>> ELSE ss[1] \o Flatten(Tail(ss))

\* the cumulative-length entry of one element, in the bucket its size selects
LengthEntry(lengthOfValues) ==
    IF lengthOfValues <= 255 THEN [bucket |-> 8, bytes |-> <<lengthOfValues>>]
    ELSE IF lengthOfValues <= 65535 THEN [bucket |-> 16, bytes |-> PutUint16(lengthOfValues)]
    ELSE [bucket |-> 32, bytes |-> PutUint32(lengthOfValues)]

RECURSIVE WriteRows(_, _, _, _, _)
\* second loop of EncodeStorage: key rows, bucket counters, length table, values
WriteRows(ch, dict, lenOfAddr, i, acc) ==
    IF i >= Len(ch) THEN acc
    ELSE LET c == ch[i + 1]
             row == writeKeyRow(IndexOf(dict, AddrOf(c.Key), 1), lenOfAddr) \o KeyHashOf(c.Key)
             lengthOfValues == acc.lengthOfValues + Len(c.Value)
             e == LengthEntry(lengthOfValues)
         IN WriteRows(ch, dict, lenOfAddr, i + 1,
              [keys |-> acc.keys \o row,
               lengthOfValues |-> lengthOfValues,
               numOfUint8 |-> IF e.bucket = 8 THEN (acc.numOfUint8 + 1) % 65536 ELSE acc.numOfUint8,
               numOfUint16 |-> IF e.bucket = 16 THEN (acc.numOfUint16 + 1) % 65536 ELSE acc.numOfUint16,
               numOfUint32 |-> IF e.bucket = 32 THEN (acc.numOfUint32 + 1) % 65536 ELSE acc.numOfUint32,
               lengthes |-> acc.lengthes \o e.bytes,
               values |-> acc.values \o c.Value])

EncodeStorage(s) ==
    LET ch == SortChanges(s)
        n == Len(ch)
        a == CollectAddrs(ch, 0, [dict |-> <<>>, notDef |-> <<>>])
        lenOfAddr == getNumOfBytesByLen(Len(a.dict))
        w == WriteRows(ch, a.dict, lenOfAddr, 0,
               [keys |-> <<>>, lengthOfValues |-> 0, numOfUint8 |-> 0, numOfUint16 |-> 0,
                numOfUint32 |-> 0, lengthes |-> <<>>, values |-> <<>>])
    IN PutUint32(n)
         \o PutUint16(Len(a.dict) % 65536)
         \o Flatten(a.dict)
         \o w.keys
         \o PutUint16(w.numOfUint8) \o PutUint16(w.numOfUint16) \o PutUint16(w.numOfUint32)
         \o w.lengthes
         \o w.values
         \o a.notDef

(***************************************************************************)
(* DecodeStorage, findVal, StorageChangeSetBytes.Walk                      *)
(* A Go run-time panic (index or slice bound out of range, explicit panic) *)
(* is the outcome err = "panic".                                           *)
(***************************************************************************)
Panicked == [err |-> "panic", Changes |-> <<>>]

\* b[lo:hi] is a valid slice expression of b
InBounds(b, lo, hi) == 0 <= lo /\ lo <= hi /\ hi <= Len(b)

\* offset, relative to the start of the length table, of the first byte after
\* the values; -1 when reading the last table entry panics
calculateIncarnationPos3(b, numOfUint8, numOfUint16, numOfUint32) ==
    IF numOfUint32 > 0
    THEN LET end == numOfUint8 + numOfUint16 * 2 + numOfUint32 * 4
         IN IF InBounds(b, end - 4, end) THEN Uint32(Slice(b, end - 4, end)) + end ELSE -1
    ELSE IF numOfUint16 > 0
    THEN LET end == numOfUint8 + numOfUint16 * 2
         IN IF InBounds(b, end - 2, end) THEN Uint16(Slice(b, end - 2, end)) + end ELSE -1
    ELSE IF numOfUint8 > 0
    THEN LET end == numOfUint8
         IN IF InBounds(b, end - 1, end) THEN b[end] + end ELSE -1
    ELSE 0

\* values[lenOfValStart:lenOfValEnd], or a panic
ValueSlice(values, lenOfValStart, lenOfValEnd) ==
    IF InBounds(values, lenOfValStart, lenOfValEnd)
    THEN [ok |-> TRUE, val |-> Slice(values, lenOfValStart, lenOfValEnd)]
    ELSE [ok |-> FALSE, val |-> <<>>]

NoValue == [ok |-> FALSE, val |-> <<>>]

findVal(lenOfVals, values, i, numOfUint8, numOfUint16, numOfUint32) ==
    IF i < numOfUint8
    THEN IF ~InBounds(lenOfVals, i, i + 1) THEN NoValue
         ELSE ValueSlice(values, IF i > 0 THEN lenOfVals[i] ELSE 0, lenOfVals[i + 1])
    ELSE IF i < numOfUint8 + numOfUint16
    THEN LET one == i * 2 - numOfUint8
         IN IF ~InBounds(lenOfVals, one, one + 2) THEN NoValue
            ELSE IF i - 1 < numOfUint8
            THEN IF ~InBounds(lenOfVals, i - 1, i) THEN NoValue
                 ELSE ValueSlice(values, lenOfVals[i], Uint16(Slice(lenOfVals, one, one + 2)))
            ELSE LET prev == (i - 1) * 2 - numOfUint8
                 IN IF ~InBounds(lenOfVals, prev, prev + 2) THEN NoValue
                    ELSE ValueSlice(values, Uint16(Slice(lenOfVals, prev, prev + 2)),
                                    Uint16(Slice(lenOfVals, one, one + 2)))
    ELSE IF i < numOfUint8 + numOfUint16 + numOfUint32
    THEN LET one == numOfUint8 + numOfUint16 * 2 + (i - numOfUint8 - numOfUint16) * 4
         IN IF ~InBounds(lenOfVals, one, one + 4) THEN NoValue
            ELSE IF i - 1 < numOfUint8 + numOfUint16
            THEN LET prev == (i - 1) * 2 - numOfUint8
                 IN IF ~InBounds(lenOfVals, prev, prev + 2) THEN NoValue
                    ELSE ValueSlice(values, Uint16(Slice(lenOfVals, prev, prev + 2)),
                                    Uint32(Slice(lenOfVals, one, one + 4)))
            ELSE LET prev == numOfUint8 + numOfUint16 * 2 + (i - 1 - numOfUint8 - numOfUint16) * 4
                 IN IF ~InBounds(lenOfVals, prev, prev + 4) THEN NoValue
                    ELSE ValueSlice(values, Uint32(Slice(lenOfVals, prev, prev + 4)),
                                    Uint32(Slice(lenOfVals, one, one + 4)))
    ELSE NoValue

RECURSIVE ReadExceptions(_, _, _)
\* the notDefaultIncarnation map built from the 12-byte records b[i:], as a
\* function id -> 8-byte image of the stored (inverted) incarnation; a later
\* record for the same id replaces an earlier one
ReadExceptions(b, i, m) ==
    IF i >= Len(b) THEN m
    ELSE LET id == Uint32(Slice(b, i, i + 4))
             inc == Not64(Slice(b, i + 4, i + 12))
         IN ReadExceptions(b, i + 12,
              [x \in DOMAIN m \cup {id} |-> IF x = id THEN inc ELSE m[x]])

EmptyMap == [x \in {} |-> <<>>]

\* the incarnation bytes a decoded key receives for the entry whose
\* dictionary index is addrIdx and whose element index is i
IncarnationFor(notDefaultIncarnation, addrIdx, i) ==
    IF addrIdx \in DOMAIN notDefaultIncarnation
    THEN Not64(notDefaultIncarnation[addrIdx])
    ELSE Not64(DefaultIncarnation)

\* addMap[addrIdx]: the dictionary entry, nil (copy leaves prev untouched) when absent
DictEntry(b, dictLen, addrIdx, prev) ==
    IF addrIdx < dictLen
    THEN Slice(b, storageEnodingLengthOfNumOfElements + storageEnodingLengthOfDict + addrIdx * HashLength,
               storageEnodingLengthOfNumOfElements + storageEnodingLengthOfDict + (addrIdx + 1) * HashLength)
    ELSE prev

RECURSIVE DecodeElements(_, _, _, _, _, _, _)
\* the element loop of DecodeStorage: every key starts as a fresh zeroed buffer
DecodeElements(b, L, notDef, i, acc, reuse, prevAddr) ==
    IF i >= L.numOfElements THEN [err |-> "nil", Changes |-> acc]
    ELSE LET elem == L.elementStart + i * (L.lenOfAddHash + HashLength)
         IN IF ~InBounds(b, elem, elem + L.lenOfAddHash + HashLength) THEN Panicked
            ELSE LET addrIdx == getUint32(Slice(b, elem, elem + L.lenOfAddHash))
                     addr == DictEntry(b, L.dictLen, addrIdx, prevAddr)
                     key == addr \o IncarnationFor(notDef, addrIdx, i)
                                 \o Slice(b, elem + L.lenOfAddHash, elem + L.lenOfAddHash + HashLength)
                     v == IF InBounds(b, L.lenOfValsPos, L.valuesPos)
                          THEN findVal(Slice(b, L.lenOfValsPos, L.valuesPos), Slice(b, L.valuesPos, Len(b)),
                                       i, L.numOfUint8, L.numOfUint16, L.numOfUint32)
                          ELSE NoValue
                 IN IF ~v.ok THEN Panicked
                    ELSE DecodeElements(b, L, notDef, i + 1,
                                        Append(acc, [Key |-> key, Value |-> v.val]),
                                        reuse, IF reuse THEN addr ELSE Zeros(HashLength))

\* the structural offsets both DecodeStorage and Walk compute from the counts
Layout(b, numOfElements) ==
    IF ~InBounds(b, storageEnodingLengthOfNumOfElements,
                 storageEnodingLengthOfNumOfElements + storageEnodingLengthOfDict)
    THEN [ok |-> FALSE]
    ELSE LET dictLen == Uint16(Slice(b, storageEnodingLengthOfNumOfElements,
                                     storageEnodingLengthOfNumOfElements + storageEnodingLengthOfDict))
             lenOfAddHash == getNumOfBytesByLen(dictLen)
             elementStart == storageEnodingStartElem + storageEnodingLengthOfDict + dictLen * HashLength
             countsPos == elementStart + numOfElements * (lenOfAddHash + HashLength)
         IN IF ~InBounds(b, countsPos, countsPos + 3 * storageEnodingLengthOfNumTypeOfElements)
            THEN [ok |-> FALSE]
            ELSE LET numOfUint8 == Uint16(Slice(b, countsPos, countsPos + 2))
                     numOfUint16 == Uint16(Slice(b, countsPos + 2, countsPos + 4))
                     numOfUint32 == Uint16(Slice(b, countsPos + 4, countsPos + 6))
                     lenOfValsPos == countsPos + 3 * storageEnodingLengthOfNumTypeOfElements
                     rel == calculateIncarnationPos3(Slice(b, lenOfValsPos, Len(b)),
                                                     numOfUint8, numOfUint16, numOfUint32)
                 IN [ok |-> rel >= 0,
                     numOfElements |-> numOfElements,
                     dictLen |-> dictLen,
                     lenOfAddHash |-> lenOfAddHash,
                     elementStart |-> elementStart,
                     numOfUint8 |-> numOfUint8,
                     numOfUint16 |-> numOfUint16,
                     numOfUint32 |-> numOfUint32,
                     lenOfValsPos |-> lenOfValsPos,
                     valuesPos |-> lenOfValsPos + numOfUint8 + numOfUint16 * 2 + numOfUint32 * 4,
                     incarnationPosition |-> lenOfValsPos + rel]

\* the part of DecodeStorage and of Walk after the counts: the exceptions
\* region, then the element loop
DecodeFrom(b, numOfElements, reuse) ==
    LET L == Layout(b, numOfElements)
    IN IF ~L.ok THEN Panicked
       ELSE IF Len(b) > L.incarnationPosition /\ (Len(b) - L.incarnationPosition) % 12 # 0
       THEN [err |-> "error", Changes |-> <<>>]
       ELSE DecodeElements(b, L,
              IF Len(b) > L.incarnationPosition
              THEN ReadExceptions(b, L.incarnationPosition, EmptyMap)
              ELSE EmptyMap,
              0, <<>>, reuse, Zeros(HashLength))

DecodeStorage(b) ==
    IF Len(b) = 0 THEN [err |-> "nil", Changes |-> <<>>]
    ELSE IF Len(b) < 4 THEN [err |-> "error", Changes |-> <<>>]
    ELSE LET numOfElements == Uint32(Slice(b, 0, storageEnodingLengthOfNumOfElements))
         IN IF numOfElements = 0 THEN [err |-> "nil", Changes |-> <<>>]
            ELSE DecodeFrom(b, numOfElements, FALSE)

\* StorageChangeSetBytes.Walk with a callback that records its arguments and
\* returns nil: Changes is the sequence of (k, v) the callback was called with
WalkStorage(b) ==
    IF Len(b) = 0 THEN [err |-> "nil", Changes |-> <<>>]
    ELSE IF Len(b) < 8 THEN [err |-> "error", Changes |-> <<>>]
    ELSE LET numOfItems == Uint32(Slice(b, 0, 4))
         IN IF numOfItems = 0 THEN [err |-> "nil", Changes |-> <<>>]
            ELSE DecodeFrom(b, numOfItems, TRUE)

RECURSIVE WalkElements(_, _, _, _, _, _, _)
\* the element loop of Walk with a callback that records its arguments and
\* returns an error at its call number failAt (0-based), nil otherwise; the
\* key buffer is made once, before the loop
WalkElements(b, L, notDef, i, acc, prevAddr, failAt) ==
    IF i >= L.numOfElements THEN [err |-> "nil", Changes |-> acc]
    ELSE LET elem == L.elementStart + i * (L.lenOfAddHash + HashLength)
         IN IF ~InBounds(b, elem, elem + L.lenOfAddHash + HashLength) THEN [err |-> "panic", Changes |-> acc]
            ELSE LET addrIdx == getUint32(Slice(b, elem, elem + L.lenOfAddHash))
                     addr == DictEntry(b, L.dictLen, addrIdx, prevAddr)
                     key == addr \o IncarnationFor(notDef, addrIdx, i)
                                 \o Slice(b, elem + L.lenOfAddHash, elem + L.lenOfAddHash + HashLength)
                     v == IF InBounds(b, L.lenOfValsPos, L.valuesPos)
                          THEN findVal(Slice(b, L.lenOfValsPos, L.valuesPos), Slice(b, L.valuesPos, Len(b)),
                                       i, L.numOfUint8, L.numOfUint16, L.numOfUint32)
                          ELSE NoValue
                 IN IF ~v.ok THEN [err |-> "panic", Changes |-> acc]
                    ELSE IF i = failAt
                    THEN [err |-> "callback", Changes |-> Append(acc, [Key |-> key, Value |-> v.val])]
                    ELSE WalkElements(b, L, notDef, i + 1,
                                      Append(acc, [Key |-> key, Value |-> v.val]), addr, failAt)

\* Walk that ignores what the callback returns
WalkIgnoringError(b, failAt) == WalkStorage(b)

\* StorageChangeSetBytes.Walk(f), f failing at its call number failAt:
\* Changes is the sequence of (k, v) f was called with, also when Walk ends
\* in an error or a panic
WalkWith(b, failAt) ==
    IF Len(b) = 0 THEN [err |-> "nil", Changes |-> <<>>]
    ELSE IF Len(b) < 8 THEN [err |-> "error", Changes |-> <<>>]
    ELSE LET numOfItems == Uint32(Slice(b, 0, 4))
         IN IF numOfItems = 0 THEN [err |-> "nil", Changes |-> <<>>]
            ELSE LET L == Layout(b, numOfItems)
                 IN IF ~L.ok THEN Panicked
                    ELSE IF Len(b) > L.incarnationPosition /\ (Len(b) - L.incarnationPosition) % 12 # 0
                    THEN [err |-> "error", Changes |-> <<>>]
                    ELSE WalkElements(b, L,
                           IF Len(b) > L.incarnationPosition
                           THEN ReadExceptions(b, L.incarnationPosition, EmptyMap)
                           ELSE EmptyMap,
                           0, <<>>, Zeros(HashLength), failAt)

NilValue == [err |-> "nil", isNil |-> TRUE, val |-> <<>>]

FindError(e) == [err |-> e, isNil |-> TRUE, val |-> <<>>]

RECURSIVE FindAddr(_, _, _, _)
\* first loop of Find: the dictionary index of addrHash, -1 when absent,
\* -2 when a dictionary slice is out of range
FindAddr(b, numOfUniqueItems, addrHash, i) ==
    IF i >= numOfUniqueItems THEN -1
    ELSE LET elemStart == storageEnodingLengthOfNumOfElements + storageEnodingLengthOfDict + i * HashLength
         IN IF ~InBounds(b, elemStart, elemStart + HashLength) THEN -2
            ELSE IF addrHash = Slice(b, elemStart, elemStart + HashLength) THEN i
            ELSE FindAddr(b, numOfUniqueItems, addrHash, i + 1)

RECURSIVE FindRow(_, _, _, _, _)
\* second loop of Find over the rows: F carries the offsets and counts
FindRow(b, F, encodedAddHashID, keyHash, i) ==
    IF i >= F.numOfItems THEN FindError("notfound")
    ELSE LET elemStart == storageEnodingStartElem + storageEnodingLengthOfDict
                            + F.numOfUniqueItems * HashLength + i * (F.elemLength + HashLength)
         IN IF ~InBounds(b, elemStart, elemStart + F.elemLength) THEN FindError("panic")
            ELSE IF encodedAddHashID # Slice(b, elemStart, elemStart + F.elemLength)
            THEN FindRow(b, F, encodedAddHashID, keyHash, i + 1)
            ELSE IF ~InBounds(b, elemStart + F.elemLength, elemStart + F.elemLength + HashLength)
            THEN FindError("panic")
            ELSE IF keyHash # Slice(b, elemStart + F.elemLength, elemStart + F.elemLength + HashLength)
            THEN FindRow(b, F, encodedAddHashID, keyHash, i + 1)
            ELSE IF ~InBounds(b, F.lenOfValsPos, F.valuesPos) THEN FindError("panic")
            ELSE LET v == findVal(Slice(b, F.lenOfValsPos, F.valuesPos), Slice(b, F.valuesPos, Len(b)),
                                  i, F.numOfUint8, F.numOfUint16, F.numOfUint32)
                 IN IF v.ok THEN [err |-> "nil", isNil |-> FALSE, val |-> v.val]
                    ELSE FindError("panic")

\* StorageChangeSetBytes.Find(addrHash, keyHash): (value, error); isNil tells
\* the nil value from an empty one
Find(b, addrHash, keyHash) ==
    IF Len(b) = 0 THEN NilValue
    ELSE IF Len(b) < 8 THEN FindError("error")
    ELSE LET numOfItems == Uint32(Slice(b, 0, storageEnodingLengthOfNumOfElements))
         IN IF numOfItems = 0 THEN NilValue
            ELSE LET numOfUniqueItems == Uint16(Slice(b, storageEnodingLengthOfNumOfElements,
                                            storageEnodingLengthOfNumOfElements + storageEnodingLengthOfDict))
                     addHashID == FindAddr(b, numOfUniqueItems, addrHash, 0)
                     elemLength == getNumOfBytesByLen(numOfUniqueItems)
                     countsPos == storageEnodingStartElem + storageEnodingLengthOfDict
                                    + numOfUniqueItems * HashLength + numOfItems * (elemLength + HashLength)
                 IN IF addHashID = -2 THEN FindError("panic")
                    ELSE IF addHashID = -1 THEN FindError("notfound")
                    ELSE IF ~InBounds(b, countsPos, countsPos + 3 * storageEnodingLengthOfNumTypeOfElements)
                    THEN FindError("panic")
                    ELSE LET numOfUint8 == Uint16(Slice(b, countsPos, countsPos + 2))
                             numOfUint16 == Uint16(Slice(b, countsPos + 2, countsPos + 4))
                             numOfUint32 == Uint16(Slice(b, countsPos + 4, countsPos + 6))
                             lenOfValsPos == countsPos + 3 * storageEnodingLengthOfNumTypeOfElements
                         IN FindRow(b,
                                [numOfItems |-> numOfItems, numOfUniqueItems |-> numOfUniqueItems,
                                 elemLength |-> elemLength, numOfUint8 |-> numOfUint8,
                                 numOfUint16 |-> numOfUint16, numOfUint32 |-> numOfUint32,
                                 lenOfValsPos |-> lenOfValsPos,
                                 valuesPos |-> lenOfValsPos + numOfUint8 + numOfUint16 * 2 + numOfUint32 * 4],
                                writeKeyRow(addHashID, elemLength), keyHash, 0)

(***************************************************************************)
(* History index chunks (dbutils.HistoryIndexBytes)                        *)
(* A chunk is the sequence of block numbers it decodes to; its encoded     *)
(* length is a header plus one fixed-width entry per block number.         *)
(***************************************************************************)
maxChunkSize == 1000

\* encoded header of a chunk
HeaderLen == 8

\* encoded width of one block number below 2^32
ItemLen == 4

\* len(*index)
ByteLen(chunk) == HeaderLen + ItemLen * Len(chunk)

NewHistoryIndex == <<>>

\* HistoryIndexBytes.Append
AppendBlock(chunk, blockNum) == Append(chunk, blockNum)

\* a chunk counts as full one entry early
IsFullEarly(chunk) == ByteLen(chunk) + 8 >= maxChunkSize

\* a chunk counts as full only once it is over the budget
IsFullLate(chunk) == ByteLen(chunk) > maxChunkSize

\* the test both call sites of changeSetWalker apply before appending
IsFull(chunk) == ByteLen(chunk) + 8 > maxChunkSize

\* HistoryIndexBytes.Key / dbutils.IndexChunkKey: the entity key and the
\* (inverted) first block number of the chunk
ChunkKey(key, chunk) == <<key, chunk[1]>>

ChunksOf(idx, key) == {c \in idx : c.key = key}

LastBlock(c) == c.blocks[Len(c.blocks)]

\* the most recent chunk of the key, whatever the block asked for
GetIndexChunkLatest(idx, key, blockNum) ==
    LET mine == ChunksOf(idx, key)
    IN IF mine = {} THEN [err |-> "notfound", key |-> <<>>, blocks |-> <<>>]
       ELSE LET c == CHOOSE c \in mine : \A d \in mine : c.first >= d.first
            IN [err |-> "nil", key |-> <<c.key, c.first>>, blocks |-> c.blocks]

\* db.GetIndexChunk(bucket, key, blockNum): the chunk of key whose range covers
\* blockNum, i.e. the earliest chunk ending at or after blockNum, and the most
\* recent chunk when blockNum lies beyond every chunk; "notfound" when the key
\* has no chunk
GetIndexChunk(idx, key, blockNum) ==
    LET mine == ChunksOf(idx, key)
        covering == {c \in mine : LastBlock(c) >= blockNum}
    IN IF mine = {} THEN [err |-> "notfound", key |-> <<>>, blocks |-> <<>>]
       ELSE IF covering # {}
       THEN LET c == CHOOSE c \in covering : \A d \in covering : c.first <= d.first
            IN [err |-> "nil", key |-> <<c.key, c.first>>, blocks |-> c.blocks]
       ELSE LET c == CHOOSE c \in mine : \A d \in mine : c.first >= d.first
            IN [err |-> "nil", key |-> <<c.key, c.first>>, blocks |-> c.blocks]

\* db.MultiPut of the tuples (bucket, chunkKey, chunk): a tuple replaces the
\* stored value of its chunk key
MultiPut(idx, tuples) ==
    {c \in idx : \A t \in tuples : <<t.key, t.first>> # <<c.key, c.first>>} \cup tuples

(***************************************************************************)
(* Index generator                                                         *)
(***************************************************************************)
FindProperIndexChunk(idx, key, blockNum) ==
    LET r == GetIndexChunk(idx, key, blockNum)
    IN IF r.err = "notfound" THEN NewHistoryIndex ELSE r.blocks

\* one call of the callback changeSetWalker(blockNum) returns, for key k, on
\* the cache c and the index bucket idx: the cache afterwards
changeSetWalker(idx, c, blockNum, k) ==
    LET indexes0 == IF k \in DOMAIN c THEN c[k] ELSE <<>>
        indexes1 == IF Len(indexes0) = 0
                    THEN LET found == FindProperIndexChunk(idx, k, blockNum)
                         IN <<IF IsFull(found) THEN NewHistoryIndex ELSE found>>
                    ELSE indexes0
        indexes2 == IF IsFull(indexes1[Len(indexes1)])
                    THEN Append(indexes1, NewHistoryIndex)
                    ELSE indexes1
        indexes3 == [indexes2 EXCEPT ![Len(indexes2)] = AppendBlock(@, blockNum)]
    IN [x \in DOMAIN c \cup {k} |-> IF x = k THEN indexes3 ELSE c[x]]

RECURSIVE WalkChangeSet(_, _, _, _)
\* ig.csWalker(v).Walk(ig.changeSetWalker(blockNum)): the callback runs once
\* per key of the change-set, in ascending key order
WalkChangeSet(idx, c, blockNum, keys) ==
    IF keys = {} THEN c
    ELSE LET k == CHOOSE k \in keys : \A j \in keys : k <= j
         IN WalkChangeSet(idx, changeSetWalker(idx, c, blockNum, k), blockNum, keys \ {k})

\* the tuples commit() builds from the cache
CacheTuples(c) ==
    UNION { { [key |-> k, first |-> ChunkKey(k, c[k][i])[2], blocks |-> c[k][i]] :
                i \in 1..Len(c[k]) } : k \in DOMAIN c }

\* a flush that stores the chunks of the smallest cached key only
commitFirstKey(idx, c) ==
    MultiPut(idx, {t \in CacheTuples(c) : \A k \in DOMAIN c : t.key <= k})

\* commit(): one MultiPut of every cached chunk
commit(idx, c) == MultiPut(idx, CacheTuples(c))

IdealBatchSize == 1

batchSize == IdealBatchSize * 3

EmptyCache == <<>>

(***************************************************************************)
(* Idle values of the parts a specification does not exercise              *)
(***************************************************************************)
None == [err |-> "none", Changes |-> <<>>]

NotRun == <<>>

IdleCodec ==
    /\ cs = <<>> /\ enc = <<>> /\ dec = None /\ walked = None
    /\ aborted = NotRun /\ finds = NotRun /\ cpc = "idle"

IdleIndex ==
    /\ csTable = <<>> /\ index = {} /\ cache = <<>>
    /\ currentKey = -1 /\ stop = TRUE /\ cursor = 0 /\ gpc = "idle" /\ runs = 0

IdleAsOf == plan = <<>> /\ blockNr = 0 /\ current = <<>> /\ changes = <<>> /\ hindex = {} /\ timeline = <<>>

IdleWalk == wState = <<>> /\ wHist = {} /\ wBlock = 0 /\ wOut = <<>> /\ wPos = 0 /\ wpc = "idle"

IdleWidth == dictSize = 0 /\ idxWidth = 0

IdleUnwind == unwound = {}
IdleLate ==
    /\ dump = [pc |-> "idle"] /\ kv = [pc |-> "idle"] /\ wit = [pc |-> "idle"]
    /\ flags = [pc |-> "idle"] /\ stage = [pc |-> "idle"]

IdleCommit ==
    pending = <<>> /\ stateBucket = <<>> /\ csBucket = <<>> /\ histBucket = {} /\ wrpc = "idle"

(***************************************************************************)
(* SpecCodec: a storage ChangeSet is encoded, then decoded and walked      *)
(***************************************************************************)
NumAddr == 2

NumKeyHash == 2

MaxChanges == 3

\* incarnations an address may carry: the default sentinel and a real one
Incarnations == {DefaultIncarnation, U64(2)}

\* change values, the empty value included
Values == {<<>>, <<7>>, <<8, 9>>}

\* the address-hashes of the input each carry one incarnation (the format
\* records one incarnation per address-hash)
OneIncarnationPerAddr(s) ==
    \A i, j \in 1..Len(s) : AddrOf(s[i].Key) = AddrOf(s[j].Key) => IncOf(s[i].Key) = IncOf(s[j].Key)

UniqueKeys(s) == \A i, j \in 1..Len(s) : i # j => s[i].Key # s[j].Key

\* incarnation carried by address a in the inputs: chosen per address
StorageChanges ==
    { [Key |-> StorageKey(a, inc, k), Value |-> v] :
        a \in 1..NumAddr, inc \in Incarnations, k \in 1..NumKeyHash, v \in Values }

InputChangeSets ==
    { s \in UNION { [1..n -> StorageChanges] : n \in 0..MaxChanges } :
        UniqueKeys(s) /\ OneIncarnationPerAddr(s) }

CodecInit ==
    /\ cs \in InputChangeSets
    /\ enc = <<>> /\ dec = None /\ walked = None /\ cpc = "new"
    /\ aborted = NotRun /\ finds = NotRun
    /\ IdleIndex /\ IdleAsOf /\ IdleWalk /\ IdleWidth /\ IdleCommit /\ IdleUnwind /\ IdleLate

DoEncode ==
    /\ cpc = "new"
    /\ enc' = EncodeStorage(cs)
    /\ cpc' = "encoded"
    /\ UNCHANGED <<cs, dec, walked, aborted, finds, indexVars, asofVars, walkVars, widthVars, commitVars, unwindVars, lateVars>>

DoDecode ==
    /\ cpc = "encoded"
    /\ dec = None
    /\ dec' = DecodeStorage(enc)
    /\ UNCHANGED <<cs, enc, walked, aborted, finds, cpc, indexVars, asofVars, walkVars, widthVars, commitVars, unwindVars, lateVars>>

\* the read operations are pure functions of enc: they are run one after the
\* other, in one fixed order
DoWalk ==
    /\ cpc = "encoded"
    /\ dec # None
    /\ walked = None
    /\ walked' = WalkStorage(enc)
    /\ UNCHANGED <<cs, enc, dec, aborted, finds, cpc, indexVars, asofVars, walkVars, widthVars, commitVars, unwindVars, lateVars>>

\* Walk with a callback that fails at one of its calls
DoWalkFailing ==
    /\ cpc = "encoded"
    /\ walked # None
    /\ aborted = NotRun
    /\ \E at \in 0..(MaxChanges - 1) : aborted' = [at |-> at, res |-> WalkWith(enc, at)]
    /\ UNCHANGED <<cs, enc, dec, walked, finds, cpc, indexVars, asofVars, walkVars, widthVars, commitVars, unwindVars, lateVars>>

\* the (addrHash, keyHash) pairs looked up: those of the inputs and one
\* address-hash and one key-hash no input carries
FindQueries == (1..(NumAddr + 1)) \X (1..(NumKeyHash + 1))

DoFind ==
    /\ cpc = "encoded"
    /\ aborted # NotRun
    /\ finds = NotRun
    /\ finds' = [q \in FindQueries |-> Find(enc, Hash(q[1]), Hash(q[2]))]
    /\ UNCHANGED <<cs, enc, dec, walked, aborted, cpc, indexVars, asofVars, walkVars, widthVars, commitVars, unwindVars, lateVars>>

CodecNext == DoEncode \/ DoDecode \/ DoWalk \/ DoWalkFailing \/ DoFind

SpecCodec == CodecInit /\ [][CodecNext]_vars

(***************************************************************************)
(* SpecLong: change-sets whose values are long enough for the cumulative   *)
(* lengths to leave the uint8 bucket (255) and the uint16 bucket (65535)   *)
(***************************************************************************)
\* value lengths: within one byte, the last one-byte length, the first
\* two-byte length, and the length that lifts 255 to 65536
LongLens == {1, 255, 256, 65281}

\* a value of n bytes whose content depends on the element it belongs to
LongValue(n, j) == [k \in 1..n |-> (k + j) % 256]

\* one address-hash, key-hashes 1..n in ascending order, every choice of lengths
LongChangeSets ==
    UNION { { [i \in 1..n |-> [Key |-> StorageKey(1, DefaultIncarnation, i),
                               Value |-> LongValue(f[i], i)]] : f \in [1..n -> LongLens] } :
            n \in 1..NumKeyHash }

LongInit ==
    /\ cs \in LongChangeSets
    /\ enc = <<>> /\ dec = None /\ walked = None /\ cpc = "new"
    /\ aborted = NotRun /\ finds = NotRun
    /\ IdleIndex /\ IdleAsOf /\ IdleWalk /\ IdleWidth /\ IdleCommit /\ IdleUnwind /\ IdleLate

SpecLong == LongInit /\ [][CodecNext]_vars

(***************************************************************************)
(* SpecWidth: the index width getNumOfBytesByLen selects for a dictionary  *)
(* of dictSize entries, as EncodeStorage, DecodeStorage, Walk and Find do  *)
(***************************************************************************)
MaxDictSize == 300

Uint16Limit == 65535

Margin == 40

\* dictionary sizes: 1..MaxDictSize, and a window around the two-byte limit
DictSizes == (1..MaxDictSize) \cup ((Uint16Limit - Margin)..(Uint16Limit + Margin))

WidthInit ==
    /\ dictSize \in DictSizes
    /\ idxWidth = 0
    /\ IdleCodec /\ IdleIndex /\ IdleAsOf /\ IdleWalk /\ IdleCommit /\ IdleUnwind /\ IdleLate

\* lenOfAddr := getNumOfBytesByLen(len(addrHashesMap))
ChooseWidth ==
    /\ idxWidth = 0
    /\ dictSize > 0
    /\ idxWidth' = getNumOfBytesByLen(dictSize)
    /\ UNCHANGED <<dictSize, codecVars, indexVars, asofVars, walkVars, commitVars, unwindVars, lateVars>>

SpecWidth == WidthInit /\ [][ChooseWidth]_vars

(***************************************************************************)
(* SpecMalformed: DecodeStorage, Walk and Find on bytes that no encoder    *)
(* wrote: encodings cut short, followed by more bytes, or with a count     *)
(* changed                                                                 *)
(***************************************************************************)
MaxTail == 13

\* the change-sets whose encodings are damaged
SeedChangeSets ==
    { <<>>,
      <<[Key |-> StorageKey(1, DefaultIncarnation, 1), Value |-> <<7>>]>>,
      <<[Key |-> StorageKey(1, U64(2), 1), Value |-> <<8, 9>>]>>,
      <<[Key |-> StorageKey(1, DefaultIncarnation, 1), Value |-> <<7>>],
        [Key |-> StorageKey(1, DefaultIncarnation, 2), Value |-> <<>>]>>,
      <<[Key |-> StorageKey(1, DefaultIncarnation, 1), Value |-> <<7>>],
        [Key |-> StorageKey(2, U64(2), 1), Value |-> <<8, 9>>]>> }

Truncations(e) == {SubSeq(e, 1, n) : n \in 0..(Len(e) - 1)}

Extensions(e) == {e \o Zeros(k) : k \in 1..MaxTail}

\* the encoding with numOfElements, or the dictionary size, one too large
Miscounts(e) == {[e EXCEPT ![4] = (@ + 1) % 256], [e EXCEPT ![6] = (@ + 1) % 256]}

Damaged(e) == Truncations(e) \cup Extensions(e) \cup Miscounts(e)

MalformedInit ==
    /\ cs \in SeedChangeSets
    /\ enc \in Damaged(EncodeStorage(cs))
    /\ dec = None /\ walked = None /\ cpc = "encoded"
    /\ aborted = NotRun /\ finds = NotRun
    /\ IdleIndex /\ IdleAsOf /\ IdleWalk /\ IdleWidth /\ IdleCommit /\ IdleUnwind /\ IdleLate

MalformedNext == DoDecode \/ DoWalk \/ DoWalkFailing \/ DoFind

SpecMalformed == MalformedInit /\ [][MalformedNext]_vars

(***************************************************************************)
(* SpecIndex: generateIndex runs over a change-set table, possibly again   *)
(* over the index bucket an earlier run has written                        *)
(***************************************************************************)
NumKeys == 4

ShortBlocks == 3

LongBlocks == 250

MaxRuns == 2

Keys == 1..NumKeys

Patterns == {"never", "always", "once0", "once1", "from1"}

\* whether a key of the given pattern is changed in block b
InBlock(p, b) ==
    CASE p = "never" -> FALSE
      [] p = "always" -> TRUE
      [] p = "once0" -> b = 0
      [] p = "once1" -> b = 1
      [] p = "from1" -> b >= 1

TableOf(pat, n) == [i \in 1..n |-> {k \in Keys : InBlock(pat[k], i - 1)}]

ShortTables == {TableOf(pat, ShortBlocks) : pat \in [Keys -> Patterns]}

\* long tables: key 1 changes in every block, the other keys at most once
LongTables ==
    {TableOf(pat, LongBlocks) :
        pat \in {q \in [Keys -> {"never", "always", "once0", "once1"}] :
                    q[1] = "always" /\ \A k \in Keys \ {1} : q[k] # "always"}}

IndexInit ==
    /\ csTable \in ShortTables \cup LongTables
    /\ index = {} /\ cache = EmptyCache
    /\ currentKey = -1 /\ stop = TRUE /\ cursor = 0 /\ gpc = "new" /\ runs = 0
    /\ IdleCodec /\ IdleAsOf /\ IdleWalk /\ IdleWidth /\ IdleCommit /\ IdleUnwind /\ IdleLate

\* db.Walk(bucket, startkey, 0, walker) seeks to the first key >= startkey:
\* the change-set of block currentKey itself is delivered again
SeekChangeSet(startKey) == IF startKey < 0 THEN 0 ELSE startKey

\* generateIndex is entered: a fresh cache, currentKey = []byte{}
StartRun ==
    /\ gpc \in {"new", "done"}
    /\ runs < MaxRuns
    /\ cache' = EmptyCache
    /\ currentKey' = -1
    /\ gpc' = "loop"
    /\ runs' = runs + 1
    /\ UNCHANGED <<csTable, index, stop, cursor, codecVars, asofVars, walkVars, widthVars, commitVars, unwindVars, lateVars>>

\* top of the for loop: stop := true and the walk is positioned
BeginWalk ==
    /\ gpc = "loop"
    /\ stop' = TRUE
    /\ cursor' = SeekChangeSet(currentKey)
    /\ gpc' = "walking"
    /\ UNCHANGED <<csTable, index, cache, currentKey, runs, codecVars, asofVars, walkVars, widthVars, commitVars, unwindVars, lateVars>>

\* the walker callback on the change-set of block `cursor`
WalkStep ==
    /\ gpc = "walking"
    /\ cursor < Len(csTable)
    /\ LET c2 == WalkChangeSet(index, cache, cursor, csTable[cursor + 1])
       IN /\ currentKey' = cursor
          /\ cache' = c2
          /\ IF Cardinality(DOMAIN c2) > batchSize
             THEN stop' = FALSE /\ gpc' = "walked" /\ cursor' = cursor
             ELSE stop' = stop /\ gpc' = gpc /\ cursor' = cursor + 1
    /\ UNCHANGED <<csTable, index, runs, codecVars, asofVars, walkVars, widthVars, commitVars, unwindVars, lateVars>>

\* the walk reaches the end of the change-set table
WalkEnd ==
    /\ gpc = "walking"
    /\ cursor >= Len(csTable)
    /\ gpc' = "walked"
    /\ UNCHANGED <<csTable, index, cache, currentKey, stop, cursor, runs, codecVars, asofVars, walkVars, widthVars, commitVars, unwindVars, lateVars>>

\* after the walk: commit() when the cache is not empty, then break or loop
Flush ==
    /\ gpc = "walked"
    /\ index' = IF DOMAIN cache # {} THEN commit(index, cache) ELSE index
    /\ cache' = EmptyCache
    /\ gpc' = IF stop THEN "done" ELSE "loop"
    /\ UNCHANGED <<csTable, currentKey, stop, cursor, runs, codecVars, asofVars, walkVars, widthVars, commitVars, unwindVars, lateVars>>

RECURSIVE FirstKeys(_, _)
\* the n smallest keys of a change-set
FirstKeys(keys, n) ==
    IF n = 0 \/ keys = {} THEN {}
    ELSE LET k == CHOOSE k \in keys : \A j \in keys : k <= j
         IN {k} \cup FirstKeys(keys \ {k}, n - 1)

\* db.Walk returns an error of its own: generateIndex returns it before commit
WalkFail ==
    /\ gpc = "walking"
    /\ gpc' = "failed"
    /\ UNCHANGED <<csTable, index, cache, currentKey, stop, cursor, runs, codecVars, asofVars, walkVars, widthVars, commitVars, unwindVars, lateVars>>

\* the change-set callback returns an error after some of the keys of the
\* block: the walker returns (false, err), db.Walk and generateIndex return err
CallbackFail ==
    /\ gpc = "walking"
    /\ cursor < Len(csTable)
    /\ csTable[cursor + 1] # {}
    /\ \E n \in 0..(Cardinality(csTable[cursor + 1]) - 1) :
          cache' = WalkChangeSet(index, cache, cursor, FirstKeys(csTable[cursor + 1], n))
    /\ currentKey' = cursor
    /\ gpc' = "failed"
    /\ UNCHANGED <<csTable, index, stop, cursor, runs, codecVars, asofVars, walkVars, widthVars, commitVars, unwindVars, lateVars>>

\* commit() fails building a chunk key: it returns before MultiPut and before
\* the cache is replaced
CommitFail ==
    /\ gpc = "walked"
    /\ DOMAIN cache # {}
    /\ gpc' = "failed"
    /\ UNCHANGED <<csTable, index, cache, currentKey, stop, cursor, runs, codecVars, asofVars, walkVars, widthVars, commitVars, unwindVars, lateVars>>

IndexNext ==
    StartRun \/ BeginWalk \/ WalkStep \/ WalkEnd \/ Flush \/ WalkFail \/ CallbackFail \/ CommitFail

SpecIndex == IndexInit /\ [][IndexNext]_vars

\* generateIndex on the short tables
GenerateInit ==
    /\ csTable \in ShortTables
    /\ index = {} /\ cache = EmptyCache
    /\ currentKey = -1 /\ stop = TRUE /\ cursor = 0 /\ gpc = "new" /\ runs = 0
    /\ IdleCodec /\ IdleAsOf /\ IdleWalk /\ IdleWidth /\ IdleCommit /\ IdleUnwind /\ IdleLate

\* generateIndex runs in one goroutine that is never starved: its loop, the
\* walk and the flush go on whenever they can
SpecGenerate ==
    GenerateInit /\ [][IndexNext]_vars /\ WF_vars(StartRun \/ BeginWalk \/ WalkStep \/ WalkEnd \/ Flush)

(***************************************************************************)
(* Block writer and GetAsOf (thin history: index chunk -> change-set)      *)
(* A value is identified by the block that wrote it; InitialValue is the   *)
(* pre-image the first change of a key records.                            *)
(***************************************************************************)
InitialValue == 0 - 1

\* DbStateWriter.WriteHistory for the keys changed in blockNum: each key's
\* open chunk is looked up, a new one started when it is full, the block
\* number appended and the chunk stored under its chunk key
WriteHistory(idx, blockNum, keys) == commit(idx, WalkChangeSet(idx, EmptyCache, blockNum, keys))

\* the value of key k in the current-state table, InitialValue before its first write
CurrentOf(cur, k) == IF k \in DOMAIN cur THEN cur[k] ELSE InitialValue

\* DbStateWriter.WriteChangeSets: the change-set of the block maps every
\* changed key to its pre-image
WriteChangeSet(cur, keys) == [k \in keys |-> CurrentOf(cur, k)]

\* UpdateAccountData: the current-state table takes the new values
UpdateCurrent(cur, blockNum, keys) ==
    [k \in DOMAIN cur \cup keys |-> IF k \in keys THEN blockNum ELSE cur[k]]

RECURSIVE SearchFrom(_, _, _, _)
\* sort.Search over chunk[lo..hi): smallest 0-based position whose entry is >= v
SearchFrom(chunk, v, lo, hi) ==
    IF lo >= hi THEN lo
    ELSE LET h == (lo + hi) \div 2
         IN IF chunk[h + 1] >= v THEN SearchFrom(chunk, v, lo, h)
            ELSE SearchFrom(chunk, v, h + 1, hi)

\* the smallest recorded block number strictly above v
SearchAbove(chunk, v) ==
    LET i == SearchFrom(chunk, v + 1, 0, Len(chunk))
    IN IF i < Len(chunk) THEN [ok |-> TRUE, block |-> chunk[i + 1]]
       ELSE [ok |-> FALSE, block |-> 0]

\* HistoryIndexBytes.Search(v): the smallest recorded block number >= v
Search(chunk, v) ==
    LET i == SearchFrom(chunk, v, 0, Len(chunk))
    IN IF i < Len(chunk) THEN [ok |-> TRUE, block |-> chunk[i + 1]]
       ELSE [ok |-> FALSE, block |-> 0]

\* db.GetAsOf(currentTable, historyTable, key, block)
GetAsOf(cur, idx, chg, key, block) ==
    LET r == GetIndexChunk(idx, key, block)
        hit == IF r.err = "nil" THEN Search(r.blocks, block) ELSE [ok |-> FALSE, block |-> 0]
    IN IF hit.ok
       THEN IF hit.block \in DOMAIN chg /\ key \in DOMAIN chg[hit.block]
            THEN [err |-> "nil", val |-> chg[hit.block][key]]
            ELSE [err |-> "inconsistent", val |-> InitialValue]
       ELSE IF key \in DOMAIN cur THEN [err |-> "nil", val |-> cur[key]]
       ELSE [err |-> "notfound", val |-> InitialValue]

(***************************************************************************)
(* SpecAsOf: the writer commits the blocks of a plan, one after another    *)
(***************************************************************************)
NumAsOfKeys == 1

ShortCommits == 5

AsOfKeys == 1..NumAsOfKeys

ShortPlans == [1..ShortCommits -> SUBSET AsOfKeys]

\* key 1 is changed in each of LongBlocks consecutive blocks, starting at from
LongPlan(from) == [i \in 1..(from + LongBlocks) |-> IF i > from THEN {1} ELSE {}]

\* first blocks of the long plans: the chunking scenario starts at block 0,
\* the as-of check scenario at block 5
FirstBlocks == {0, 5}

AsOfInit ==
    /\ plan \in ShortPlans \cup {LongPlan(f) : f \in FirstBlocks}
    /\ blockNr = 0 /\ current = <<>> /\ changes = <<>> /\ hindex = {} /\ timeline = <<>>
    /\ IdleCodec /\ IdleIndex /\ IdleWalk /\ IdleWidth /\ IdleCommit /\ IdleUnwind /\ IdleLate

\* block blockNr changes the keys plan[blockNr + 1]: UpdateAccountData for
\* each, then WriteChangeSets and WriteHistory
CommitBlock ==
    /\ blockNr < Len(plan)
    /\ plan[blockNr + 1] # {}
    /\ LET keys == plan[blockNr + 1]
       IN /\ changes' = [b \in DOMAIN changes \cup {blockNr} |->
                            IF b = blockNr THEN WriteChangeSet(current, keys) ELSE changes[b]]
          /\ current' = UpdateCurrent(current, blockNr, keys)
          /\ hindex' = WriteHistory(hindex, blockNr, keys)
          /\ timeline' = [k \in DOMAIN timeline \cup keys |->
                            IF k \in keys
                            THEN Append(IF k \in DOMAIN timeline THEN timeline[k] ELSE <<>>,
                                        [block |-> blockNr, pre |-> CurrentOf(current, k)])
                            ELSE timeline[k]]
    /\ blockNr' = blockNr + 1
    /\ UNCHANGED <<plan, codecVars, indexVars, walkVars, widthVars, commitVars, unwindVars, lateVars>>

\* tds.SetBlockNr past a block that changes nothing
SkipBlock ==
    /\ blockNr < Len(plan)
    /\ plan[blockNr + 1] = {}
    /\ blockNr' = blockNr + 1
    /\ UNCHANGED <<plan, current, changes, hindex, timeline, codecVars, indexVars, walkVars, widthVars, commitVars, unwindVars, lateVars>>

AsOfNext == CommitBlock \/ SkipBlock

SpecAsOf == AsOfInit /\ [][AsOfNext]_vars

(***************************************************************************)
(* SpecUnwind: blocks are written as in SpecAsOf, and deleteTimestamp      *)
(* removes the history of a written block                                  *)
(***************************************************************************)
\* a removal that leaves the chunk as it is
RemoveNothing(blocks, b) == blocks

RECURSIVE RemoveBlock(_, _)
\* HistoryIndexBytes.Remove(b): the chunk without the block number b
RemoveBlock(blocks, b) ==
    IF blocks = <<>> THEN <<>>
    ELSE IF blocks[1] = b THEN RemoveBlock(Tail(blocks), b)
    ELSE <<blocks[1]>> \o RemoveBlock(Tail(blocks), b)

\* for key k: the index chunk covering b is read and deleted, b removed from
\* it, and what is left stored under the chunk key of its content
UnwindKey(idx, k, b) ==
    LET r == GetIndexChunk(idx, k, b)
    IN IF r.err # "nil" THEN idx
       ELSE LET rest == RemoveBlock(r.blocks, b)
                others == {c \in idx : <<c.key, c.first>> # r.key}
            IN IF rest = <<>> THEN others
               ELSE MultiPut(others, {[key |-> k, first |-> ChunkKey(k, rest)[2], blocks |-> rest]})

RECURSIVE UnwindKeys(_, _, _)
UnwindKeys(idx, keys, b) ==
    IF keys = {} THEN idx
    ELSE LET k == CHOOSE k \in keys : \A j \in keys : k <= j
         IN UnwindKeys(UnwindKey(idx, k, b), keys \ {k}, b)

UnwindInit ==
    /\ plan \in ShortPlans
    /\ blockNr = 0 /\ current = <<>> /\ changes = <<>> /\ hindex = {} /\ timeline = <<>>
    /\ unwound = {}
    /\ IdleCodec /\ IdleIndex /\ IdleWalk /\ IdleWidth /\ IdleCommit /\ IdleLate

\* tds.deleteTimestamp(b) and the commit of the batch
DeleteTimestamp ==
    /\ \E b \in DOMAIN changes :
          /\ hindex' = UnwindKeys(hindex, DOMAIN changes[b], b)
          /\ changes' = [o \in DOMAIN changes \ {b} |-> changes[o]]
          /\ unwound' = unwound \cup {b}
    /\ UNCHANGED <<plan, blockNr, current, timeline, codecVars, indexVars, walkVars, widthVars, commitVars, lateVars>>

UnwindNext == CommitBlock \/ SkipBlock \/ DeleteTimestamp

SpecUnwind == UnwindInit /\ [][UnwindNext]_vars

(***************************************************************************)
(* WalkAsOf: merge walk of the current state and of the history bucket     *)
(***************************************************************************)
\* cursor position past the last key
NoKey == 0

\* cursor.Seek(from) over an ordered set of keys: the smallest key >= from
SeekKey(keySet, from) ==
    LET rest == {x \in keySet : x >= from}
    IN IF rest = {} THEN NoKey ELSE CHOOSE x \in rest : \A y \in rest : x <= y

\* keys with a history record written at a block >= block
HistKeys(hist, block) == {e.key : e \in {e \in hist : e.block >= block}}

\* the history record of key at the smallest change block >= block
HistRecord(hist, key, block) ==
    LET mine == {e \in hist : e.key = key /\ e.block >= block}
    IN CHOOSE e \in mine : \A d \in mine : e.block <= d.block

StateValue(k) == [src |-> "state", block |-> 0, key |-> k]

HistValue(k, b) == [src |-> "history", block |-> b, key |-> k]

\* the step that reads the state cursor before the history cursor on equal keys
walkAsOfStepStateFirst(st, hist, block, pos) ==
    IF pos.h # NoKey /\ (pos.k = NoKey \/ pos.h < pos.k)
    THEN [out |-> [Key |-> pos.h, Value |-> HistRecord(hist, pos.h, block).val],
          k |-> pos.k,
          h |-> SeekKey(HistKeys(hist, block), pos.h + 1)]
    ELSE [out |-> [Key |-> pos.k, Value |-> st[pos.k]],
          k |-> SeekKey(DOMAIN st, pos.k + 1),
          h |-> pos.h]

\* one step of the merge: the smaller of the two cursor keys is delivered, the
\* history record when both cursors stand on the same key, and the cursors
\* standing on the delivered key move on
walkAsOfStep(st, hist, block, pos) ==
    IF pos.h # NoKey /\ (pos.k = NoKey \/ pos.h <= pos.k)
    THEN [out |-> [Key |-> pos.h, Value |-> HistRecord(hist, pos.h, block).val],
          k |-> IF pos.k = pos.h THEN SeekKey(DOMAIN st, pos.k + 1) ELSE pos.k,
          h |-> SeekKey(HistKeys(hist, block), pos.h + 1)]
    ELSE [out |-> [Key |-> pos.k, Value |-> st[pos.k]],
          k |-> SeekKey(DOMAIN st, pos.k + 1),
          h |-> pos.h]

(***************************************************************************)
(* SpecWalk: one WalkAsOf over a state and a history                       *)
(***************************************************************************)
NumWalkKeys == 3

WalkKeys == 1..NumWalkKeys

\* blocks of the history records and of the walks of TestBoltDB_WalkAsOf1
HistBlocks == {3, 5}

WalkBlocks == {2, 4, 6}

StartKeys == {0, 2}

StateOver(keySet) == [k \in keySet |-> StateValue(k)]

HistOver(pairs) == {[key |-> p[1], block |-> p[2], val |-> HistValue(p[1], p[2])] : p \in pairs}

\* the scenario of TestBoltDB_WalkAsOf1
TestState == StateOver(1..4)

TestHist == HistOver(((1..7) \X {3}) \cup ((3..7) \X {5}))

WalkInit ==
    /\ \/ /\ wState \in {StateOver(ks) : ks \in SUBSET WalkKeys}
          /\ wHist \in {HistOver(ps) : ps \in SUBSET (WalkKeys \X HistBlocks)}
          /\ wPos \in {[from |-> f, k |-> NoKey, h |-> NoKey] : f \in StartKeys}
       \/ /\ wState = TestState
          /\ wHist = TestHist
          /\ wPos = [from |-> 0, k |-> NoKey, h |-> NoKey]
    /\ wBlock \in WalkBlocks
    /\ wOut = <<>>
    /\ wpc = "new"
    /\ IdleCodec /\ IdleIndex /\ IdleAsOf /\ IdleWidth /\ IdleCommit /\ IdleUnwind /\ IdleLate

\* both cursors seek the start key
WalkBegin ==
    /\ wpc = "new"
    /\ wPos' = [wPos EXCEPT !.k = SeekKey(DOMAIN wState, wPos.from),
                            !.h = SeekKey(HistKeys(wHist, wBlock), wPos.from)]
    /\ wpc' = "walking"
    /\ UNCHANGED <<wState, wHist, wBlock, wOut, codecVars, indexVars, asofVars, widthVars, commitVars, unwindVars, lateVars>>

WalkDeliver ==
    /\ wpc = "walking"
    /\ wPos.k # NoKey \/ wPos.h # NoKey
    /\ LET r == walkAsOfStep(wState, wHist, wBlock, wPos)
       IN /\ wOut' = Append(wOut, r.out)
          /\ wPos' = [wPos EXCEPT !.k = r.k, !.h = r.h]
    /\ UNCHANGED <<wState, wHist, wBlock, wpc, codecVars, indexVars, asofVars, widthVars, commitVars, unwindVars, lateVars>>

WalkDone ==
    /\ wpc = "walking"
    /\ wPos.k = NoKey /\ wPos.h = NoKey
    /\ wpc' = "done"
    /\ UNCHANGED <<wState, wHist, wBlock, wOut, wPos, codecVars, indexVars, asofVars, widthVars, commitVars, unwindVars, lateVars>>

WalkNext == WalkBegin \/ WalkDeliver \/ WalkDone

SpecWalk == WalkInit /\ [][WalkNext]_vars

(***************************************************************************)
(* SpecMultiWalk: MultiWalkAsOf over several start keys.  A start key s    *)
(* with its fixedBits matches a block of consecutive keys: with granule g  *)
(* the keys k of the same block of g keys as s, from s on.                 *)
(***************************************************************************)
\* granules the fixed bits leave open: 1 fixes the whole key (the 60 bits of
\* the test on keys that differ in their first byte), 2 leaves the last bit
Granules == {1, 2}

MaxStarts == 2

\* last key of the block of g keys that holds s
BlockEnd(s, g) == (((s - 1) \div g) + 1) * g

\* every key matches: the fixed bits are not compared
MatchesAny(k, start) == k # 0

\* key k lies under the start key: same fixed bits
MatchesStart(k, start) == k # NoKey /\ (k - 1) \div start.g = (start.key - 1) \div start.g

\* the key the merge delivers next: the smaller of the two cursor keys
NextKey(pos) ==
    IF pos.h # NoKey /\ (pos.k = NoKey \/ pos.h <= pos.k) THEN pos.h ELSE pos.k

Disjoint(starts) ==
    \A i, j \in 1..Len(starts) :
        i # j => \A k \in 1..BlockEnd(starts[i].key, starts[i].g) :
                    ~(MatchesStart(k, starts[i]) /\ MatchesStart(k, starts[j]))

StartLists ==
    { s \in UNION { [1..n -> [key : WalkKeys, g : Granules]] : n \in 1..MaxStarts } : Disjoint(s) }

\* startKeys and fixedBits of TestBoltDB_MultiWalkAsOf
TestStarts == <<[key |-> 1, g |-> 1], [key |-> 3, g |-> 1], [key |-> 7, g |-> 1]>>

MultiInit ==
    /\ \/ /\ wState \in {StateOver(ks) : ks \in SUBSET WalkKeys}
          /\ wHist \in {HistOver((a \X {3}) \cup (b \X {5})) : a \in SUBSET WalkKeys, b \in {{}, WalkKeys}}
          /\ wPos \in {[starts |-> s, idx |-> 0, k |-> NoKey, h |-> NoKey] : s \in StartLists}
       \/ /\ wState = TestState
          /\ wHist = TestHist
          /\ wPos = [starts |-> TestStarts, idx |-> 0, k |-> NoKey, h |-> NoKey]
    /\ wBlock \in WalkBlocks
    /\ wOut = <<>>
    /\ wpc = "new"
    /\ IdleCodec /\ IdleIndex /\ IdleAsOf /\ IdleWidth /\ IdleCommit /\ IdleUnwind /\ IdleLate

\* the walk turns to the next start key: both cursors seek it
MultiSeek ==
    /\ wpc \in {"new", "walking"}
    /\ wPos.idx < Len(wPos.starts)
    /\ wPos.idx > 0 => ~MatchesStart(NextKey(wPos), wPos.starts[wPos.idx])
    /\ LET start == wPos.starts[wPos.idx + 1]
       IN wPos' = [wPos EXCEPT !.idx = wPos.idx + 1,
                               !.k = SeekKey(DOMAIN wState, start.key),
                               !.h = SeekKey(HistKeys(wHist, wBlock), start.key)]
    /\ wpc' = "walking"
    /\ UNCHANGED <<wState, wHist, wBlock, wOut, codecVars, indexVars, asofVars, widthVars, commitVars, unwindVars, lateVars>>

\* the next key lies under the current start key: fn(idx, key, value)
MultiDeliver ==
    /\ wpc = "walking"
    /\ MatchesStart(NextKey(wPos), wPos.starts[wPos.idx])
    /\ LET r == walkAsOfStep(wState, wHist, wBlock, wPos)
       IN /\ wOut' = Append(wOut, [Idx |-> wPos.idx, Key |-> r.out.Key, Value |-> r.out.Value])
          /\ wPos' = [wPos EXCEPT !.k = r.k, !.h = r.h]
    /\ UNCHANGED <<wState, wHist, wBlock, wpc, codecVars, indexVars, asofVars, widthVars, commitVars, unwindVars, lateVars>>

MultiDone ==
    /\ wpc = "walking"
    /\ wPos.idx = Len(wPos.starts)
    /\ ~MatchesStart(NextKey(wPos), wPos.starts[wPos.idx])
    /\ wpc' = "done"
    /\ UNCHANGED <<wState, wHist, wBlock, wOut, wPos, codecVars, indexVars, asofVars, widthVars, commitVars, unwindVars, lateVars>>

MultiNext == MultiSeek \/ MultiDeliver \/ MultiDone

SpecMultiWalk == MultiInit /\ [][MultiNext]_vars

(***************************************************************************)
(* SpecDump: Dumper.dump drives WalkAsOf over the accounts and asks it to  *)
(* stop once maxResults accounts were reported.                            *)
(***************************************************************************)
MaxResults == 2

\* what the callback meets at a key: an account, a key longer than 32 bytes
\* (a storage entry), an account whose address preimage is missing, or a
\* value that does not decode
Kinds == {"account", "storage", "nopreimage", "bad"}

\* the limit is never reached
limitNever(maxResults, numberOfResults) == FALSE

\* if maxResults > 0 && numberOfResults >= maxResults
limitReached(maxResults, numberOfResults) == maxResults > 0 /\ numberOfResults >= maxResults

\* the function literal handed to WalkAsOf: the (bool, error) it returns and
\* the variables of dump it assigns
dumpCallback(d, k) ==
    IF limitReached(d.maxResults, d.numberOfResults)
    THEN [goOn |-> FALSE, err |-> "nil", d |-> [d EXCEPT !.nextKey = k]]
    ELSE IF d.kind[k] = "storage"
    THEN [goOn |-> TRUE, err |-> "nil", d |-> d]
    ELSE IF d.kind[k] = "bad"
    THEN [goOn |-> FALSE, err |-> "decoding", d |-> d]
    ELSE IF d.kind[k] = "nopreimage" /\ d.excludeMissingPreimages
    THEN [goOn |-> TRUE, err |-> "nil", d |-> d]
    ELSE [goOn |-> TRUE, err |-> "nil",
          d |-> [d EXCEPT !.accounts = Append(d.accounts, k),
                          !.numberOfResults = d.numberOfResults + 1]]

DumpInit ==
    /\ wState \in {StateOver(ks) : ks \in SUBSET WalkKeys}
    /\ wHist \in {HistOver({}), HistOver(WalkKeys \X {3})}
    /\ wBlock \in {2, 4}
    /\ wPos = [from |-> 0, k |-> NoKey, h |-> NoKey]
    /\ wOut = <<>>
    /\ wpc = "new"
    /\ dump \in [pc : {"new"}, kind : [WalkKeys -> Kinds], maxResults : 0..MaxResults,
                 excludeMissingPreimages : BOOLEAN, numberOfResults : {0},
                 nextKey : {NoKey}, accounts : {<<>>}, err : {"nil"}]
    /\ kv = [pc |-> "idle"] /\ wit = [pc |-> "idle"]
    /\ flags = [pc |-> "idle"] /\ stage = [pc |-> "idle"]
    /\ IdleCodec /\ IdleIndex /\ IdleAsOf /\ IdleWidth /\ IdleCommit /\ IdleUnwind

\* dump calls WalkAsOf: both cursors seek the start key
DumpBegin ==
    /\ dump.pc = "new"
    /\ wPos' = [wPos EXCEPT !.k = SeekKey(DOMAIN wState, wPos.from),
                            !.h = SeekKey(HistKeys(wHist, wBlock), wPos.from)]
    /\ wpc' = "walking"
    /\ dump' = [dump EXCEPT !.pc = "walking"]
    /\ UNCHANGED <<wState, wHist, wBlock, wOut, codecVars, indexVars, asofVars, widthVars, commitVars, unwindVars, kv, wit, flags, stage>>

\* the walk reads the entry under its cursors and calls the callback; the
\* cursors move on only when the callback asks for more
DumpEntry ==
    /\ wpc = "walking"
    /\ wPos.k # NoKey \/ wPos.h # NoKey
    /\ LET r == walkAsOfStep(wState, wHist, wBlock, wPos)
           c == dumpCallback(dump, r.out.Key)
       IN /\ wOut' = Append(wOut, r.out)
          /\ IF c.goOn
             THEN /\ wPos' = [wPos EXCEPT !.k = r.k, !.h = r.h]
                  /\ wpc' = wpc
                  /\ dump' = c.d
             ELSE /\ wPos' = wPos
                  /\ wpc' = "done"
                  /\ dump' = [c.d EXCEPT !.err = c.err,
                                         !.pc = IF c.err = "nil" THEN "stopped" ELSE "failed"]
    /\ UNCHANGED <<wState, wHist, wBlock, codecVars, indexVars, asofVars, widthVars, commitVars, unwindVars, kv, wit, flags, stage>>

\* the cursors are exhausted: WalkAsOf returns nil
DumpEnd ==
    /\ wpc = "walking"
    /\ wPos.k = NoKey /\ wPos.h = NoKey
    /\ wpc' = "done"
    /\ dump' = [dump EXCEPT !.pc = "finished"]
    /\ UNCHANGED <<wState, wHist, wBlock, wOut, wPos, codecVars, indexVars, asofVars, widthVars, commitVars, unwindVars, kv, wit, flags, stage>>

DumpNext == DumpBegin \/ DumpEntry \/ DumpEnd

SpecDump == DumpInit /\ [][DumpNext]_vars

(***************************************************************************)
(* SpecCursor: cursors of the ordered key-value store.  The bucket is an   *)
(* ordered sequence of entries; a cursor is a position in it.  The store's *)
(* own cursor (bolt's, and remote.Cursor behind remoteCursor) is outside   *)
(* src/ and follows the ordered-store contract.                            *)
(***************************************************************************)
NilKey == <<>>

\* keys of TestManagedTx
TestKeys == {<<0>>, <<0, 0, 1>>, <<0, 1>>, <<1>>, <<2>>}

TestValues == {<<1>>, <<1, 1>>}

Prefixes == {<<>>, <<0>>, <<0, 0>>, <<2>>}

MaxKeys == 4

MaxCalls == 2

\* every key passes the filter
HasAnyPrefix(k, prefix) == TRUE

\* bytes.HasPrefix(k, prefix)
HasPrefix(k, prefix) == Len(k) >= Len(prefix) /\ SubSeq(k, 1, Len(prefix)) = prefix

RECURSIVE bucketPut(_, _, _)
\* Bucket.Put: the entry takes its place in key order; an equal key is replaced
bucketPut(b, k, v) ==
    IF b = <<>> THEN <<[k |-> k, v |-> v]>>
    ELSE IF b[1].k = k THEN <<[k |-> k, v |-> v]>> \o Tail(b)
    ELSE IF BytesLess(k, b[1].k) THEN <<[k |-> k, v |-> v]>> \o b
    ELSE <<b[1]>> \o bucketPut(Tail(b), k, v)

RECURSIVE seekIdx(_, _, _)
\* position of the first entry at or after position i whose key is >= seek;
\* 0 when there is none
seekIdx(b, seek, i) ==
    IF i > Len(b) THEN 0
    ELSE IF ~BytesLess(b[i].k, seek) THEN i
    ELSE seekIdx(b, seek, i + 1)

\* the context is never looked at
ctxIgnored(ctx) == "nil"

\* select { case <-ctx.Done(): return ctx.Err() default: }
ctxErr(ctx) == IF ctx = "expired" THEN "DeadlineExceeded" ELSE "nil"

\* what the cursor stands on at position i under its prefix filter
cursorAt(c, i) ==
    IF i = 0 \/ i > Len(c.bucket) \/ ~HasPrefix(c.bucket[i].k, c.prefix)
    THEN [idx |-> 0, k |-> NilKey, v |-> <<>>, err |-> "nil"]
    ELSE [idx |-> i, k |-> c.bucket[i].k, v |-> c.bucket[i].v, err |-> "nil"]

\* one call of the store's cursor: First on the first call, Next after it
storeStep(c, first) ==
    IF ctxErr(c.ctx) # "nil"
    THEN [idx |-> 0, k |-> NilKey, v |-> <<>>, err |-> ctxErr(c.ctx)]
    ELSE IF c.cursorFailAt = c.steps + 1
    THEN [idx |-> 0, k |-> NilKey, v |-> <<>>, err |-> "io"]
    ELSE IF first THEN cursorAt(c, seekIdx(c.bucket, c.prefix, 1))
    ELSE cursorAt(c, IF c.idx = 0 THEN 0 ELSE c.idx + 1)

\* remoteCursor.First / Next and remoteNoValuesCursor.First / Next: the
\* result of the remote cursor is kept in c.k, c.v, c.err and returned; the
\* no-values cursor returns the size of the value in its place
cursorStep(c, first) ==
    LET r == storeStep(c, first)
    IN IF c.mode = "novalues" THEN [r EXCEPT !.v = Len(r.v)] ELSE r

\* the walker of a Walk: what it returns on its n-th call
walkerResult(c, n) ==
    [ok |-> c.stopAt # n, err |-> IF c.failAt = n THEN "walker" ELSE "nil"]

IdleKv(pcv) ==
    [pc |-> pcv, bucket |-> <<>>, written |-> {}, store |-> "local", ctx |-> "live",
     prefix |-> <<>>, mode |-> "loop", stopAt |-> 0, failAt |-> 0, cursorFailAt |-> 0,
     idx |-> 0, k |-> NilKey, err |-> "nil", steps |-> 0, visited |-> <<>>, ret |-> "nil"]

CursorInit ==
    /\ kv = IdleKv("update")
    /\ dump = [pc |-> "idle"] /\ wit = [pc |-> "idle"]
    /\ flags = [pc |-> "idle"] /\ stage = [pc |-> "idle"]
    /\ IdleCodec /\ IdleIndex /\ IdleAsOf /\ IdleWalk /\ IdleWidth /\ IdleCommit /\ IdleUnwind

\* b.Put(k, v) inside db.Update
CursorPut ==
    /\ kv.pc = "update"
    /\ \E k \in TestKeys, v \in TestValues :
          /\ Len(kv.bucket) < MaxKeys \/ \E i \in 1..Len(kv.bucket) : kv.bucket[i].k = k
          /\ kv' = [kv EXCEPT !.bucket = bucketPut(kv.bucket, k, v),
                              !.written = {e \in kv.written : e.k # k} \cup {[k |-> k, v |-> v]}]
    /\ UNCHANGED <<storeVars, unwindVars, dump, wit, flags, stage>>

\* db.View: a cursor is made, with a prefix, for a First/Next loop or a Walk
CursorView ==
    /\ kv.pc = "update"
    /\ \E p \in Prefixes, m \in {"loop", "walk", "novalues"}, st \in {"local", "remote"},
          s \in 0..MaxCalls, f \in 0..MaxCalls, cf \in 0..MaxCalls :
          /\ m = "loop" => s = 0 /\ f = 0
          /\ kv' = [kv EXCEPT !.pc = "iter", !.prefix = p, !.mode = m, !.store = st,
                              !.stopAt = s, !.failAt = f, !.cursorFailAt = cf]
    /\ UNCHANGED <<storeVars, unwindVars, dump, wit, flags, stage>>

\* one turn of  for k, v, err := c.First(); k != nil || err != nil; k, v, err = c.Next()
\* with the body of the loop (counting) or of Walk (the walker)
CursorTurn ==
    /\ kv.pc = "iter"
    /\ LET r == cursorStep(kv, kv.steps = 0)
           c == [kv EXCEPT !.idx = r.idx, !.k = r.k, !.err = r.err, !.steps = kv.steps + 1]
           n == Len(kv.visited) + 1
           w == walkerResult(kv, n)
       IN IF r.k = NilKey /\ r.err = "nil"
          THEN kv' = [c EXCEPT !.pc = "returned", !.ret = "nil"]
          ELSE IF r.err # "nil"
          THEN kv' = [c EXCEPT !.pc = "returned", !.ret = r.err]
          ELSE IF kv.mode = "loop"
          THEN kv' = [c EXCEPT !.visited = Append(kv.visited, [k |-> r.k, v |-> r.v])]
          ELSE IF w.err # "nil"
          THEN kv' = [c EXCEPT !.visited = Append(kv.visited, [k |-> r.k, v |-> r.v]),
                              !.pc = "returned", !.ret = w.err]
          ELSE IF ~w.ok
          THEN kv' = [c EXCEPT !.visited = Append(kv.visited, [k |-> r.k, v |-> r.v]),
                              !.pc = "returned", !.ret = "nil"]
          ELSE kv' = [c EXCEPT !.visited = Append(kv.visited, [k |-> r.k, v |-> r.v])]
    /\ UNCHANGED <<storeVars, unwindVars, dump, wit, flags, stage>>

CursorNext == CursorPut \/ CursorView \/ CursorTurn

SpecCursor == CursorInit /\ [][CursorNext]_vars

(***************************************************************************)
(* SpecCancel: testCtxCancel.  The callback of View iterates the bucket    *)
(* again and again while the deadline of its context runs out.             *)
(***************************************************************************)
MaxSteps == 3

RECURSIVE bucketOf(_)
bucketOf(keys) ==
    IF keys = {} THEN <<>>
    ELSE LET k == CHOOSE x \in keys : TRUE
         IN bucketPut(bucketOf(keys \ {k}), k, <<1>>)

CancelInit ==
    /\ kv \in {[IdleKv("iter") EXCEPT !.bucket = bucketOf(ks), !.store = st] :
                 ks \in SUBSET TestKeys, st \in {"local", "remote"}}
    /\ dump = [pc |-> "idle"] /\ wit = [pc |-> "idle"]
    /\ flags = [pc |-> "idle"] /\ stage = [pc |-> "idle"]
    /\ IdleCodec /\ IdleIndex /\ IdleAsOf /\ IdleWalk /\ IdleWidth /\ IdleCommit /\ IdleUnwind

\* context.WithTimeout: the deadline passes
CancelExpire ==
    /\ kv.pc = "iter" /\ kv.ctx = "live"
    /\ kv' = [kv EXCEPT !.ctx = "expired"]
    /\ UNCHANGED <<storeVars, unwindVars, dump, wit, flags, stage>>

\* one cursor call of  for { for k, _, err := c.First(); ...; c.Next() {...} }
CancelTurn ==
    /\ kv.pc = "iter"
    /\ LET r == cursorStep(kv, kv.idx = 0)
           c == [kv EXCEPT !.idx = r.idx, !.k = r.k, !.err = r.err,
                           !.steps = IF kv.steps < MaxSteps THEN kv.steps + 1 ELSE kv.steps]
       IN IF r.err # "nil"
          THEN kv' = [c EXCEPT !.pc = "returned", !.ret = r.err]
          ELSE kv' = c
    /\ UNCHANGED <<storeVars, unwindVars, dump, wit, flags, stage>>

CancelNext == CancelExpire \/ CancelTurn

\* the timer of the context fires, and the goroutine running View is scheduled
SpecCancel == CancelInit /\ [][CancelNext]_vars /\ WF_vars(CancelExpire) /\ WF_vars(CancelTurn)

(***************************************************************************)
(* SpecWitness: the block witness stack machine with its instructions HASH *)
(* and BRANCH.  The stack is a sequence whose first element is the top.    *)
(***************************************************************************)
Nil == [kind |-> "nil"]

\* if idx > 16
LastIdx == 16

MaxQueue == 4

\* BIT_TEST(number, n)
BIT_TEST(number, n) == (number \div (2 ^ n)) % 2 = 1

RECURSIVE NBITSET(_)
\* NBITSET(number)
NBITSET(number) == IF number = 0 THEN 0 ELSE (number % 2) + NBITSET(number \div 2)

RECURSIVE MAKE_VALUES_ARRAY_FROM(_, _, _)
\* MAKE_VALUES_ARRAY(mask, idx, values...)
MAKE_VALUES_ARRAY_FROM(mask, idx, values) ==
    IF idx > LastIdx THEN <<>>
    ELSE IF BIT_TEST(mask, idx)
    THEN <<Head(values)>> \o MAKE_VALUES_ARRAY_FROM(mask, idx + 1, Tail(values))
    ELSE <<Nil>> \o MAKE_VALUES_ARRAY_FROM(mask, idx + 1, values)

\* MAKE_VALUES_ARRAY(mask, values...)
MAKE_VALUES_ARRAY(mask, values) == MAKE_VALUES_ARRAY_FROM(mask, 0, values)

\* the guards on the number of set bits are dropped
branchLoose(mask, stack) ==
    Cardinality({i \in 0..17 : (mask \div (2 ^ i)) % 2 = 1}) <= Len(stack)

\* one of the rules  GUARD NBITSET(mask) == n  STACK(n0, h0) ... STACK(n_n-1, h_n-1)
\* BRANCH(mask), n = 2..16, matches
branchApplicable(mask, stack) ==
    /\ NBITSET(mask) >= 2 /\ NBITSET(mask) <= 16
    /\ Len(stack) >= NBITSET(mask)

\* STACK(branchNode(MAKE_VALUES_ARRAY(mask, n0, n1, ...)),
\*       keccak(CONCAT(MAKE_VALUES_ARRAY(mask, h0, n1, ...))))
branchItem(mask, items) ==
    [node |-> [kind |-> "branch",
               children |-> MAKE_VALUES_ARRAY(mask, [i \in 1..Len(items) |-> items[i].node])],
     hash |-> [kind |-> "keccak",
               of |-> MAKE_VALUES_ARRAY(mask, [i \in 1..Len(items) |->
                                                IF i = 1 THEN items[i].hash ELSE items[i].node])]]

\* HASH(hashValue) |=> STACK(hashNode(hashValue), hashValue)
hashItem(hashValue) ==
    [node |-> [kind |-> "hash", raw |-> hashValue], hash |-> [kind |-> "raw", raw |-> hashValue]]

Masks == {0, 1, 3, 5, 7, 131071}

Instructions ==
    {[op |-> "HASH", arg |-> h] : h \in {1, 2}} \cup {[op |-> "BRANCH", arg |-> m] : m \in Masks}

\* n HASH instructions followed by BRANCH mask
Wide(n, mask) == [i \in 1..(n + 1) |-> IF i <= n THEN [op |-> "HASH", arg |-> i]
                                                  ELSE [op |-> "BRANCH", arg |-> mask]]

Witnesses ==
    UNION {[1..n -> Instructions] : n \in 0..MaxQueue}
      \cup {Wide(16, 65535), Wide(15, 65535), Wide(17, 131071), Wide(16, 32767) \o Wide(1, 3)}

WitnessInit ==
    /\ wit \in {[pc |-> "running", witness |-> w, queue |-> w, stack |-> <<>>,
                  cycles |-> 0, result |-> Nil] : w \in Witnesses}
    /\ dump = [pc |-> "idle"] /\ kv = [pc |-> "idle"]
    /\ flags = [pc |-> "idle"] /\ stage = [pc |-> "idle"]
    /\ IdleCodec /\ IdleIndex /\ IdleAsOf /\ IdleWalk /\ IdleWidth /\ IdleCommit /\ IdleUnwind

\* one execution cycle: an instruction is dequeued and the matching rule is
\* applied; without a matching rule the execution stops
WitnessCycle ==
    /\ wit.pc = "running" /\ wit.queue # <<>>
    /\ LET instr == Head(wit.queue)
           w == [wit EXCEPT !.queue = Tail(wit.queue), !.cycles = wit.cycles + 1]
           n == NBITSET(instr.arg)
       IN IF instr.op = "HASH"
          THEN wit' = [w EXCEPT !.stack = <<hashItem(instr.arg)>> \o wit.stack]
          ELSE IF branchApplicable(instr.arg, wit.stack)
          THEN wit' = [w EXCEPT !.stack = <<branchItem(instr.arg, SubSeq(wit.stack, 1, n))>>
                                           \o SubSeq(wit.stack, n + 1, Len(wit.stack))]
          ELSE wit' = [w EXCEPT !.pc = "trapped"]
    /\ UNCHANGED <<storeVars, unwindVars, dump, kv, flags, stage>>

\* no instruction is left: the execution is completed when one item is on the stack
WitnessEnd ==
    /\ wit.pc = "running" /\ wit.queue = <<>>
    /\ IF Len(wit.stack) = 1
       THEN wit' = [wit EXCEPT !.pc = "completed", !.result = wit.stack[1]]
       ELSE wit' = [wit EXCEPT !.pc = "invalid"]
    /\ UNCHANGED <<storeVars, unwindVars, dump, kv, flags, stage>>

WitnessNext == WitnessCycle \/ WitnessEnd

SpecWitness == WitnessInit /\ [][WitnessNext]_vars

(***************************************************************************)
(* SpecValues: MAKE_VALUES_ARRAY on every 16-bit mask                      *)
(***************************************************************************)
MaskWidth == 16

ValuesInit ==
    /\ wit \in {[pc |-> "args", mask |-> m,
                  values |-> [k \in 1..NBITSET(m) |-> [kind |-> "value", id |-> k]],
                  array |-> <<>>] : m \in 0..(2 ^ MaskWidth - 1)}
    /\ dump = [pc |-> "idle"] /\ kv = [pc |-> "idle"]
    /\ flags = [pc |-> "idle"] /\ stage = [pc |-> "idle"]
    /\ IdleCodec /\ IdleIndex /\ IdleAsOf /\ IdleWalk /\ IdleWidth /\ IdleCommit /\ IdleUnwind

MakeValuesArray ==
    /\ wit.pc = "args"
    /\ wit' = [wit EXCEPT !.pc = "made", !.array = MAKE_VALUES_ARRAY(wit.mask, wit.values)]
    /\ UNCHANGED <<storeVars, unwindVars, dump, kv, flags, stage>>

SpecValues == ValuesInit /\ [][MakeValuesArray]_vars

(***************************************************************************)
(* SpecFlags: the getNodeData experiment flag.  Goroutines call            *)
(* IsGetNodeData, RestoreGetNodeData and OverrideGetNodeData; each atomic  *)
(* load or store and the environment lookup is one step.  Booleans are     *)
(* kept as the bit they are stored as (0 or 1).                            *)
(***************************************************************************)
gndValueFlag == 1

gndInitializedFlag == 2

NumProcs == 2

Procs == 1..NumProcs

\* no override is in force
NoOverride == 0 - 1

IdleProc == [pc |-> "idle", val |-> 0, fromIs |-> FALSE, explicit |-> "none", loads |-> 0,
             ret |-> NoOverride, retUnder |-> NoOverride]

FlagsInit ==
    /\ flags \in {[pc |-> "run", getNodeData |-> 0, envVarSet |-> e, everInit |-> FALSE,
                    settled |-> NoOverride, procs |-> [p \in Procs |-> IdleProc]] : e \in BOOLEAN}
    /\ dump = [pc |-> "idle"] /\ kv = [pc |-> "idle"]
    /\ wit = [pc |-> "idle"] /\ stage = [pc |-> "idle"]
    /\ IdleCodec /\ IdleIndex /\ IdleAsOf /\ IdleWalk /\ IdleWidth /\ IdleCommit /\ IdleUnwind

\* a goroutine calls IsGetNodeData()
CallIs ==
    /\ \E p \in Procs :
          /\ flags.procs[p].pc = "idle"
          /\ flags' = [flags EXCEPT !.procs[p] = [IdleProc EXCEPT !.pc = "load"]]
    /\ UNCHANGED <<storeVars, unwindVars, dump, kv, wit, stage>>

\* a goroutine calls OverrideGetNodeData(v)
CallOverride ==
    /\ \E p \in Procs, v \in {0, 1} :
          /\ flags.procs[p].pc = "idle"
          /\ flags' = [flags EXCEPT !.settled = NoOverride,
                                    !.procs[p] = [IdleProc EXCEPT !.pc = "store", !.val = v,
                                                                  !.explicit = "override"]]
    /\ UNCHANGED <<storeVars, unwindVars, dump, kv, wit, stage>>

\* a goroutine calls RestoreGetNodeData()
CallRestore ==
    /\ \E p \in Procs :
          /\ flags.procs[p].pc = "idle"
          /\ flags' = [flags EXCEPT !.settled = NoOverride,
                                    !.procs[p] = [IdleProc EXCEPT !.pc = "lookup",
                                                                  !.explicit = "restore"]]
    /\ UNCHANGED <<storeVars, unwindVars, dump, kv, wit, stage>>

\* IsGetNodeData: x := atomic.LoadUint32(&getNodeData); initialised: return
\* the value bit; else RestoreGetNodeData() is called
LoadFlag ==
    /\ \E p \in Procs :
          /\ flags.procs[p].pc = "load"
          /\ LET x == flags.getNodeData
                 q == [flags.procs[p] EXCEPT !.loads = flags.procs[p].loads + 1]
             IN IF (x \div gndInitializedFlag) % 2 # 0
                THEN flags' = [flags EXCEPT !.procs[p] = [q EXCEPT !.pc = "idle",
                                                                   !.ret = x % 2,
                                                                   !.retUnder = flags.settled]]
                ELSE flags' = [flags EXCEPT !.procs[p] = [q EXCEPT !.pc = "lookup", !.fromIs = TRUE]]
    /\ UNCHANGED <<storeVars, unwindVars, dump, kv, wit, stage>>

\* RestoreGetNodeData: _, envVarSet := os.LookupEnv(...); OverrideGetNodeData(!envVarSet)
LookupEnv ==
    /\ \E p \in Procs :
          /\ flags.procs[p].pc = "lookup"
          /\ flags' = [flags EXCEPT !.procs[p].pc = "store",
                                    !.procs[p].val = IF flags.envVarSet THEN 0 ELSE 1]
    /\ UNCHANGED <<storeVars, unwindVars, dump, kv, wit, stage>>

\* OverrideGetNodeData: atomic.StoreUint32; the call returns, to IsGetNodeData
\* (which calls itself again) or to the goroutine
StoreFlag ==
    /\ \E p \in Procs :
          /\ flags.procs[p].pc = "store"
          /\ LET q == flags.procs[p]
                 others == \E o \in Procs \ {p} : flags.procs[o].explicit # "none"
             IN flags' = [flags EXCEPT
                    !.getNodeData = IF q.val = 1 THEN gndInitializedFlag + gndValueFlag
                                    ELSE gndInitializedFlag,
                    !.everInit = TRUE,
                    !.settled = IF q.explicit = "override" /\ ~others THEN q.val
                                ELSE IF q.explicit = "none" THEN flags.settled
                                ELSE NoOverride,
                    !.procs[p] = IF q.fromIs THEN [q EXCEPT !.pc = "load"]
                                 ELSE [q EXCEPT !.pc = "idle", !.explicit = "none"]]
    /\ UNCHANGED <<storeVars, unwindVars, dump, kv, wit, stage>>

FlagsNext == CallIs \/ CallOverride \/ CallRestore \/ LoadFlag \/ LookupEnv \/ StoreFlag

SpecFlags == FlagsInit /\ [][FlagsNext]_vars

(***************************************************************************)
(* SpecStage: the head of spawnBodyDownloadStage, which handles the        *)
(* invalidation of the Bodies stage.  stage.db is what the database shows, *)
(* stage.batch the writes collected in the batch (NoWrite = not written).  *)
(***************************************************************************)
MaxBlock == 3

NoWrite == 0 - 1

EmptyBatch == [progress |-> NoWrite, inval |-> NoWrite, postInval |-> NoWrite]

\* the next stage is always written
pushAlways(postInvalidation, invalidation) == TRUE

\* if postInvalidation == 0 || invalidation < postInvalidation
pushNeeded(postInvalidation, invalidation) ==
    postInvalidation = 0 \/ invalidation < postInvalidation

\* a read through the batch: the pending write when there is one
batchGet(s, field) == IF s.batch[field] # NoWrite THEN s.batch[field] ELSE s.db[field]

\* batch.Commit(): every pending write reaches the database at once
batchCommit(s) ==
    [f \in {"progress", "inval", "postInval"} |->
        IF s.batch[f] # NoWrite THEN s.batch[f] ELSE s.db[f]]

StageInit ==
    /\ stage \in {[pc |-> "start", db |-> d, db0 |-> d, batch |-> EmptyBatch, hasNext |-> n,
                    origin |-> 0, invalidation |-> 0, cancelCh |-> "none",
                    committed |-> FALSE, err |-> "nil"] :
                       d \in [progress : 0..MaxBlock, inval : 0..MaxBlock, postInval : 0..MaxBlock],
                       n \in BOOLEAN}
    /\ dump = [pc |-> "idle"] /\ kv = [pc |-> "idle"]
    /\ wit = [pc |-> "idle"] /\ flags = [pc |-> "idle"]
    /\ IdleCodec /\ IdleIndex /\ IdleAsOf /\ IdleWalk /\ IdleWidth /\ IdleCommit /\ IdleUnwind

\* d.cancelCh = make(chan struct{}); defer d.Cancel()
StageOpen ==
    /\ stage.pc = "start"
    /\ stage' = [stage EXCEPT !.pc = "getProgress", !.cancelCh = "open"]
    /\ UNCHANGED <<storeVars, unwindVars, dump, kv, wit, flags>>

\* origin, err := GetStageProgress(d.stateDB, Bodies)
StageGetProgress ==
    /\ stage.pc = "getProgress"
    /\ \E fail \in BOOLEAN :
          stage' = IF fail THEN [stage EXCEPT !.pc = "deferred", !.err = "getting progress"]
                   ELSE [stage EXCEPT !.pc = "getInvalidation", !.origin = stage.db.progress]
    /\ UNCHANGED <<storeVars, unwindVars, dump, kv, wit, flags>>

\* invalidation, err = GetStageInvalidation(d.stateDB, Bodies); if invalidation != 0
StageGetInvalidation ==
    /\ stage.pc = "getInvalidation"
    /\ \E fail \in BOOLEAN :
          stage' = IF fail THEN [stage EXCEPT !.pc = "deferred", !.err = "getting invalidation"]
                   ELSE [stage EXCEPT !.invalidation = stage.db.inval,
                                      !.pc = IF stage.db.inval # 0 THEN "rollback" ELSE "rest"]
    /\ UNCHANGED <<storeVars, unwindVars, dump, kv, wit, flags>>

\* batch := NewBatch(); if invalidation < origin: SaveStageProgress(batch, Bodies, invalidation)
StageRollback ==
    /\ stage.pc = "rollback"
    /\ IF stage.invalidation < stage.origin
       THEN \E fail \in BOOLEAN :
              stage' = IF fail THEN [stage EXCEPT !.pc = "deferred", !.err = "rolling back"]
                       ELSE [stage EXCEPT !.pc = "clear", !.batch.progress = stage.invalidation,
                                          !.origin = stage.invalidation]
       ELSE stage' = [stage EXCEPT !.pc = "clear"]
    /\ UNCHANGED <<storeVars, unwindVars, dump, kv, wit, flags>>

\* SaveStageInvalidation(batch, Bodies, 0)
StageClear ==
    /\ stage.pc = "clear"
    /\ \E fail \in BOOLEAN :
          stage' = IF fail THEN [stage EXCEPT !.pc = "deferred", !.err = "removing invalidation"]
                   ELSE [stage EXCEPT !.pc = "push", !.batch.inval = 0]
    /\ UNCHANGED <<storeVars, unwindVars, dump, kv, wit, flags>>

\* if Bodies+1 < Finish: read the next stage's invalidation through the
\* batch and overwrite it when it is 0 or later than this one
StagePush ==
    /\ stage.pc = "push"
    /\ IF stage.hasNext
       THEN \E failGet \in BOOLEAN, failSave \in BOOLEAN :
              LET postInvalidation == batchGet(stage, "postInval")
              IN stage' = IF failGet
                          THEN [stage EXCEPT !.pc = "deferred", !.err = "getting post invalidation"]
                          ELSE IF pushNeeded(postInvalidation, stage.invalidation)
                          THEN IF failSave
                               THEN [stage EXCEPT !.pc = "deferred", !.err = "pushing invalidation"]
                               ELSE [stage EXCEPT !.pc = "commit",
                                                  !.batch.postInval = stage.invalidation]
                          ELSE [stage EXCEPT !.pc = "commit"]
       ELSE stage' = [stage EXCEPT !.pc = "commit"]
    /\ UNCHANGED <<storeVars, unwindVars, dump, kv, wit, flags>>

\* batch.Commit()
StageCommit ==
    /\ stage.pc = "commit"
    /\ \E fail \in BOOLEAN :
          stage' = IF fail THEN [stage EXCEPT !.pc = "deferred", !.err = "committing"]
                   ELSE [stage EXCEPT !.pc = "rest", !.db = batchCommit(stage),
                                      !.batch = EmptyBatch, !.committed = TRUE]
    /\ UNCHANGED <<storeVars, unwindVars, dump, kv, wit, flags>>

\* the rest of the stage (headers walk, body download) returns, with or
\* without an error
StageRest ==
    /\ stage.pc = "rest"
    /\ \E e \in {"nil", "walking", "sync"} : stage' = [stage EXCEPT !.pc = "deferred", !.err = e]
    /\ UNCHANGED <<storeVars, unwindVars, dump, kv, wit, flags>>

\* the deferred d.Cancel() closes the cancel channel; the function returns
StageCancel ==
    /\ stage.pc = "deferred"
    /\ stage' = [stage EXCEPT !.pc = "returned", !.cancelCh = "closed"]
    /\ UNCHANGED <<storeVars, unwindVars, dump, kv, wit, flags>>

StageNext ==
    \/ StageOpen \/ StageGetProgress \/ StageGetInvalidation \/ StageRollback
    \/ StageClear \/ StagePush \/ StageCommit \/ StageRest \/ StageCancel

SpecStage == StageInit /\ [][StageNext]_vars

(***************************************************************************)
(* SpecCommit: the block writer over storage keys.  WriteAccountStorage    *)
(* takes the original and the new value of a storage key; WriteChangeSets  *)
(* stores the encoded change-set of the block, WriteHistory the index      *)
(* entries; GetAsOf reads the pre-image back from the encoded change-set.  *)
(***************************************************************************)
MaxWrites == 2

\* tds.SetBlockNr(2): the block the writes are committed under
CommitBlockNr == 2

\* pre-images and new values of the writes; the empty new value is "not present"
Originals == {<<7>>, <<8, 9>>}

NewValues == {<<>>, <<5>>}

\* storage key of account a (incarnation a, as accHistory[i].Incarnation =
\* i + 1) and key-hash k: the 72-byte key, and the id the tables order it by
CommitKey(a, k) == StorageKey(a, U64(a), k)

KeyId(a, k) == (a - 1) * NumKeyHash + k

\* the change-set the writer accumulates: (key, original value) per write
ChangeSetOfNew(w) == [i \in 1..Len(w) |-> [Key |-> CommitKey(w[i].a, w[i].k), Value |-> w[i].value]]

ChangeSetOf(w) == [i \in 1..Len(w) |-> [Key |-> CommitKey(w[i].a, w[i].k), Value |-> w[i].original]]

CommitInit ==
    /\ pending = <<>> /\ stateBucket = <<>> /\ csBucket = <<>> /\ histBucket = {}
    /\ wrpc = "writing"
    /\ IdleCodec /\ IdleIndex /\ IdleAsOf /\ IdleWalk /\ IdleWidth /\ IdleUnwind /\ IdleLate

\* blockWriter.WriteAccountStorage(ctx, addr, incarnation, key, original, value)
WriteAccountStorage ==
    /\ wrpc = "writing"
    /\ Len(pending) < MaxWrites
    /\ \E a \in 1..NumAddr, k \in 1..NumKeyHash, original \in Originals, value \in NewValues :
          /\ \A i \in 1..Len(pending) : <<pending[i].a, pending[i].k>> # <<a, k>>
          /\ pending' = Append(pending, [a |-> a, k |-> k, original |-> original, value |-> value])
          /\ stateBucket' =
                IF value = <<>>
                THEN [x \in DOMAIN stateBucket \ {KeyId(a, k)} |-> stateBucket[x]]
                ELSE [x \in DOMAIN stateBucket \cup {KeyId(a, k)} |->
                        IF x = KeyId(a, k) THEN value ELSE stateBucket[x]]
    /\ UNCHANGED <<csBucket, histBucket, wrpc, codecVars, indexVars, asofVars, walkVars, widthVars, unwindVars, lateVars>>

\* blockWriter.WriteChangeSets()
WriteChangeSets ==
    /\ wrpc = "writing"
    /\ pending # <<>>
    /\ csBucket' = [b \in {CommitBlockNr} |-> EncodeStorage(ChangeSetOf(pending))]
    /\ wrpc' = "changesets"
    /\ UNCHANGED <<pending, stateBucket, histBucket, codecVars, indexVars, asofVars, walkVars, widthVars, unwindVars, lateVars>>

\* blockWriter.WriteHistory()
WriteStorageHistory ==
    /\ wrpc = "changesets"
    /\ histBucket' = WriteHistory(histBucket, CommitBlockNr,
                                  {KeyId(pending[i].a, pending[i].k) : i \in 1..Len(pending)})
    /\ wrpc' = "done"
    /\ UNCHANGED <<pending, stateBucket, csBucket, codecVars, indexVars, asofVars, walkVars, widthVars, unwindVars, lateVars>>

CommitNext == WriteAccountStorage \/ WriteChangeSets \/ WriteStorageHistory

SpecCommit == CommitInit /\ [][CommitNext]_vars

\* db.GetAsOf(CurrentStateBucket, StorageHistoryBucket, key, block) for the
\* storage key (a, k): index chunk, Search, then the pre-image found in the
\* encoded change-set of the block hit
GetAsOfStorage(a, k, block) ==
    LET r == GetIndexChunk(histBucket, KeyId(a, k), block)
        hit == IF r.err = "nil" THEN Search(r.blocks, block) ELSE [ok |-> FALSE, block |-> 0]
    IN IF hit.ok
       THEN IF hit.block \in DOMAIN csBucket
            THEN Find(csBucket[hit.block], Hash(a), Hash(k))
            ELSE FindError("inconsistent")
       ELSE IF KeyId(a, k) \in DOMAIN stateBucket
       THEN [err |-> "nil", isNil |-> FALSE, val |-> stateBucket[KeyId(a, k)]]
       ELSE FindError("notfound")

(***************************************************************************)
(* Claims on the codec                                                     *)
(***************************************************************************)
KeyValuePairs(s) == [i \in 1..Len(s) |-> <<s[i].Key, s[i].Value>>]

\* C2: for every storage ChangeSet with unique 72-byte keys,
\* DecodeStorage(EncodeStorage(cs)) succeeds and, re-sorted by key, has exactly
\* the (Key, Value) pairs of cs sorted by key.
C2_RoundTrip ==
    dec # None =>
        /\ dec.err = "nil"
        /\ KeyValuePairs(SortChanges(dec.Changes)) = KeyValuePairs(SortChanges(cs))

\* the incarnation of every entry of the result equals, position by position,
\* the incarnation of the entry of the sorted input
SameIncarnations(res) ==
    LET ch == SortChanges(cs)
    IN /\ res.err = "nil"
       /\ Len(res.Changes) = Len(ch)
       /\ \A i \in 1..Len(ch) : IncOf(res.Changes[i].Key) = IncOf(ch[i].Key)

\* C3: every entry decoded by DecodeStorage and by Walk carries the incarnation
\* of its original key (the exact non-default incarnation, or the default
\* sentinel), wherever its address-hash stands in the sorted change list.
C3_IncarnationRoundTrip ==
    /\ dec # None => SameIncarnations(dec)
    /\ walked # None => SameIncarnations(walked)

(***************************************************************************)
(* Claims on the index generator                                           *)
(***************************************************************************)
AllChunks ==
    {c.blocks : c \in index} \cup UNION {{cache[k][i] : i \in 1..Len(cache[k])} : k \in DOMAIN cache}

\* C7: in every reachable state the encoded length of every history index
\* chunk, stored or cached, is at most maxChunkSize; an append that would
\* exceed the budget goes to a newly started chunk.
C7_ChunkWithinBudget == \A c \in AllChunks : ByteLen(c) <= maxChunkSize

\* a key has a full chunk and a later chunk that was started after it
C7_Witness ==
    \E c, d \in index : c.key = d.key /\ IsFull(c.blocks) /\ d.first > LastBlock(c) /\ runs = 1

\* C8: a chunk that is stored full is never changed by a later append, flush
\* or generation run.
C8_SealedChunksImmutable == [][\A c \in index : IsFull(c.blocks) => c \in index']_vars

RECURSIVE ConcatChunks(_)
\* the chunks of a set, concatenated in chunk order (ascending first block)
ConcatChunks(chunks) ==
    IF chunks = {} THEN <<>>
    ELSE LET c == CHOOSE c \in chunks : \A d \in chunks : c.first <= d.first
         IN c.blocks \o ConcatChunks(chunks \ {c})

RECURSIVE BlocksOf(_, _, _)
\* the ascending list of the blocks b >= from whose change-set contains k
BlocksOf(table, k, from) ==
    IF from >= Len(table) THEN <<>>
    ELSE IF k \in table[from + 1] THEN <<from>> \o BlocksOf(table, k, from + 1)
    ELSE BlocksOf(table, k, from + 1)

\* C9: after generateIndex returns nil, the chunks of every key, concatenated
\* in chunk order, are exactly the ascending list of the blocks whose change-set
\* contains the key, each block once.
C9_IndexIsChangeList ==
    (gpc = "done" /\ runs = 1) =>
        \A k \in Keys : ConcatChunks(ChunksOf(index, k)) = BlocksOf(csTable, k, 0)

NoDuplicates(blocks) == \A i, j \in 1..Len(blocks) : i # j => blocks[i] # blocks[j]

\* C10: reprocessing a change-set (after a flush, or in a later run over
\* chunks that are already stored) never adds a second copy of a block number
\* to a chunk.
C10_NoSecondCopy == \A c \in index : NoDuplicates(c.blocks)

(***************************************************************************)
(* Claims on GetAsOf and on the writer's chunking                          *)
(***************************************************************************)
Queries == 0..(Len(plan) + 2)

AsOf(k, q) == GetAsOf(current, hindex, changes, k, q)

\* the answer read off the commit history: the pre-image recorded by the first
\* change of k at a block >= q, else the current-state value
Reference(k, q) ==
    LET tl == IF k \in DOMAIN timeline THEN timeline[k] ELSE <<>>
        later == {i \in 1..Len(tl) : tl[i].block >= q}
    IN IF later # {}
       THEN [err |-> "nil", val |-> tl[CHOOSE i \in later : \A j \in later : i <= j].pre]
       ELSE IF k \in DOMAIN current THEN [err |-> "nil", val |-> current[k]]
       ELSE [err |-> "notfound", val |-> InitialValue]

\* the scenario of TestMutation_GetAsOf: changes at blocks 0, 2 and 4
GetAsOfPlan == <<{1}, {}, {1}, {}, {1}>>

GetAsOfUnchunked(k, q) ==
    LET hit == Search(ConcatChunks(ChunksOf(hindex, k)), q)
    IN IF hit.ok THEN [err |-> "nil", val |-> changes[hit.block][k]]
       ELSE IF k \in DOMAIN current THEN [err |-> "nil", val |-> current[k]]
       ELSE [err |-> "notfound", val |-> InitialValue]

\* the chunks of k in which the search for q hits the block that answers q
ResolvingChunks(k, q) ==
    LET hit == Search(ConcatChunks(ChunksOf(hindex, k)), q)
    IN {c \in ChunksOf(hindex, k) :
          hit.ok /\ Search(c.blocks, q).ok /\ Search(c.blocks, q).block = hit.block}

RECURSIVE AsOfFrom(_, _, _, _, _)
\* the as-of values of the keys from..last, in ascending key order
AsOfFrom(st, hist, block, from, last) ==
    IF from > last THEN <<>>
    ELSE LET rest == AsOfFrom(st, hist, block, from + 1, last)
         IN IF from \in HistKeys(hist, block)
            THEN <<[Key |-> from, Value |-> HistValue(from, HistRecord(hist, from, block).block)]>> \o rest
            ELSE IF from \in DOMAIN st
            THEN <<[Key |-> from, Value |-> st[from]]>> \o rest
            ELSE rest

KeysPresent == DOMAIN wState \cup {e.key : e \in wHist}

LastKey == IF KeysPresent = {} THEN 0 ELSE CHOOSE k \in KeysPresent : \A j \in KeysPresent : j <= k

ExpectedWalk == AsOfFrom(wState, wHist, wBlock, IF wPos.from < 1 THEN 1 ELSE wPos.from, LastKey)

\* C4: WalkAsOf delivers, in strictly ascending key order and once per key,
\* the as-of value of every key: the history value at the smallest change
\* block >= block when there is one, else the current-state value, and nothing
\* for a key with neither; with history at block 3 for keys 1..7 and at block
\* 5 for keys 3..7 and state for keys 1..4, the walk at 2 gives the block-3
\* values of the 7 keys, the walk at 4 the state of keys 1..2 and the block-5
\* values of keys 3..7, the walk at 6 the state of keys 1..4.
C4_WalkAsOf ==
    wpc \in {"walking", "done"} =>
        /\ \A i, j \in 1..Len(wOut) : i < j => wOut[i].Key < wOut[j].Key
        /\ Len(wOut) <= Len(ExpectedWalk) /\ wOut = SubSeq(ExpectedWalk, 1, Len(wOut))
        /\ wpc = "done" => wOut = ExpectedWalk
        /\ (wpc = "done" /\ wState = TestState /\ wHist = TestHist) =>
              /\ wBlock = 2 => wOut = [k \in 1..7 |-> [Key |-> k, Value |-> HistValue(k, 3)]]
              /\ wBlock = 4 => wOut = [k \in 1..7 |-> [Key |-> k, Value |-> IF k <= 2 THEN StateValue(k) ELSE HistValue(k, 5)]]
              /\ wBlock = 6 => wOut = [k \in 1..4 |-> [Key |-> k, Value |-> StateValue(k)]]

C4_Witness ==
    /\ wpc = "done" /\ wState = TestState /\ wHist = TestHist /\ wBlock = 4
    /\ Len(wOut) = 7
    /\ wOut[2].Value = StateValue(2) /\ wOut[3].Value = HistValue(3, 5)

(***************************************************************************)
(* Claims on the generator's failures                                      *)
(***************************************************************************)
\* C11: a failure of the walk, of a change-set callback or of building a
\* chunk key makes generateIndex return without writing anything; the index
\* bucket changes only in a flush, which stores every cached chunk and then
\* empties the cache.
C11_NoPartialFlush ==
    [][/\ gpc' = "failed" => index' = index
       /\ index' # index => gpc = "walked" /\ gpc' \in {"loop", "done"}
       /\ (gpc = "walked" /\ gpc' \in {"loop", "done"}) =>
             /\ \A t \in CacheTuples(cache) : t \in index'
             /\ cache' = EmptyCache]_vars

C11_Witness ==
    /\ gpc = "failed" /\ runs = 1
    /\ index # {}
    /\ Cardinality(DOMAIN cache) >= 2
    /\ \E t \in CacheTuples(cache) : t \notin index

(***************************************************************************)
(* Claims on malformed input                                               *)
(***************************************************************************)
\* enc is the encoding of cs followed by a tail whose length is no multiple of 12
BadExceptionsRegion ==
    LET e == EncodeStorage(cs)
    IN /\ Len(enc) > Len(e)
       /\ SubSeq(enc, 1, Len(e)) = e
       /\ (Len(enc) - Len(e)) % 12 # 0

\* C12: when the region after the values is not empty and its length is no
\* multiple of 12, DecodeStorage returns an error and Walk returns an error
\* without calling the callback.
C12_BadExceptionsRegion ==
    BadExceptionsRegion =>
        /\ dec # None => dec.err = "error"
        /\ walked # None => walked.err = "error" /\ walked.Changes = <<>>

\* C13: on arbitrary bytes DecodeStorage, Walk and Find end with a result or
\* with an error value; none of them panics.
C13_NoPanic ==
    /\ dec # None => dec.err \in {"nil", "error"}
    /\ walked # None => walked.err \in {"nil", "error"}
    /\ aborted # NotRun => aborted.res.err \in {"nil", "error", "callback"}
    /\ finds # NotRun => \A q \in DOMAIN finds : finds[q].err \in {"nil", "error", "notfound"}

(***************************************************************************)
(* findVal on the encoder's output                                         *)
(***************************************************************************)
\* the arguments DecodeStorage, Walk and Find pass to findVal for element i
FindValOf(b, n, i) ==
    LET L == Layout(b, n)
    IN IF ~L.ok \/ ~InBounds(b, L.lenOfValsPos, L.valuesPos) THEN NoOverride
       ELSE findVal(Slice(b, L.lenOfValsPos, L.valuesPos), Slice(b, L.valuesPos, Len(b)),
                    i, L.numOfUint8, L.numOfUint16, L.numOfUint32)

\* C14: for every encoding EncodeStorage produced and every element index i,
\* findVal returns exactly the bytes of the i-th value of the sorted change
\* list, also when the element is the first of the uint16 or uint32 bucket and
\* when the cumulative length steps from the uint8 to the uint32 bucket
C14_FindVal ==
    cpc = "encoded" =>
        \A i \in 0..(Len(cs) - 1) :
            FindValOf(enc, Len(cs), i) = [ok |-> TRUE, val |-> SortChanges(cs)[i + 1].Value]

(***************************************************************************)
(* Find against the change-set and against a linear scan                   *)
(***************************************************************************)
RECURSIVE LinearScan(_, _, _, _)
\* the first change of the list with the address-hash and the key-hash, as a
\* result of Find; the not-found error when the list has none
LinearScan(ch, addrHash, keyHash, i) ==
    IF i > Len(ch) THEN FindError("notfound")
    ELSE IF AddrOf(ch[i].Key) = addrHash /\ KeyHashOf(ch[i].Key) = keyHash
    THEN [err |-> "nil", isNil |-> FALSE, val |-> ch[i].Value]
    ELSE LinearScan(ch, addrHash, keyHash, i + 1)

\* C15: on the encoder's output Find returns the value of the entry of cs with
\* the address-hash and key-hash, the not-found error when cs has none (the
\* empty cs included), and always what a linear scan over DecodeStorage(b) finds
C15_Find ==
    (cpc = "encoded" /\ enc = EncodeStorage(cs) /\ finds # NotRun) =>
        \A q \in DOMAIN finds :
            /\ finds[q] = LinearScan(cs, Hash(q[1]), Hash(q[2]), 1)
            /\ dec.err = "nil" => finds[q] = LinearScan(dec.Changes, Hash(q[1]), Hash(q[2]), 1)

(***************************************************************************)
(* Walk against DecodeStorage                                              *)
(***************************************************************************)
\* C16: Walk calls fn once per encoded entry, in encoded order, with the
\* (key, value) pairs DecodeStorage returns for the same bytes; when fn
\* returns an error at one call, Walk returns that error and calls fn no more
C16_WalkAsDecode ==
    /\ (walked # None /\ dec.err = "nil") =>
          /\ walked.Changes = dec.Changes
          /\ enc = EncodeStorage(cs) => walked.err = "nil" /\ Len(walked.Changes) = Len(cs)
    /\ (aborted # NotRun /\ walked.err = "nil") =>
          IF aborted.at < Len(walked.Changes)
          THEN aborted.res = [err |-> "callback", Changes |-> SubSeq(walked.Changes, 1, aborted.at + 1)]
          ELSE aborted.res = walked

\* a walk of three entries whose callback fails at its second call
C16_Witness ==
    /\ aborted # NotRun /\ aborted.at = 1 /\ aborted.res.err = "callback"
    /\ Len(aborted.res.Changes) = 2 /\ Len(dec.Changes) = 3 /\ walked = dec
    /\ \E i \in 1..3 : dec.Changes[i].Value # <<>>

(***************************************************************************)
(* The address-hash dictionary of an encoding                              *)
(***************************************************************************)
AddrHashes(ch) == {AddrOf(ch[i].Key) : i \in 1..Len(ch)}

\* position (1-based) of the first change of the list with the address-hash
FirstOccurrence(ch, a) ==
    CHOOSE i \in 1..Len(ch) : AddrOf(ch[i].Key) = a /\ \A j \in 1..(i - 1) : AddrOf(ch[j].Key) # a

\* the fields of an encoding: dictionary size, dictionary entry j (0-based),
\* and the dictionary index written in row i (0-based)
DictSizeField(b) ==
    Uint16(Slice(b, storageEnodingLengthOfNumOfElements,
                 storageEnodingLengthOfNumOfElements + storageEnodingLengthOfDict))

DictField(b, j) ==
    Slice(b, storageEnodingLengthOfNumOfElements + storageEnodingLengthOfDict + j * HashLength,
          storageEnodingLengthOfNumOfElements + storageEnodingLengthOfDict + (j + 1) * HashLength)

RowIndexField(b, i) ==
    LET N == DictSizeField(b)
        w == getNumOfBytesByLen(N)
        elem == storageEnodingStartElem + storageEnodingLengthOfDict + N * HashLength + i * (w + HashLength)
    IN getUint32(Slice(b, elem, elem + w))

\* C17: in the encoder's output the dictionary size is the number of distinct
\* address-hashes of the input, the dictionary lists them in the order of
\* their first occurrence in the sorted change list, every row's dictionary
\* index refers to the row's own address-hash, and decoding yields the same
\* number of distinct address-hashes
C17_Dictionary ==
    (cpc = "encoded" /\ enc = EncodeStorage(cs)) =>
        LET ch == SortChanges(cs)
            N == DictSizeField(enc)
        IN /\ N = Cardinality(AddrHashes(cs))
           /\ {DictField(enc, j) : j \in 0..(N - 1)} = AddrHashes(cs)
           /\ \A j, k \in 0..(N - 1) :
                  j < k => FirstOccurrence(ch, DictField(enc, j)) < FirstOccurrence(ch, DictField(enc, k))
           /\ \A i \in 0..(Len(ch) - 1) :
                  /\ RowIndexField(enc, i) < N
                  /\ DictField(enc, RowIndexField(enc, i)) = AddrOf(ch[i + 1].Key)
           /\ dec # None => /\ dec.err = "nil"
                            /\ Cardinality(AddrHashes(dec.Changes)) = N

\* three changes over two address-hashes, given in an order that is not the
\* sorted one, encoded and decoded
C17_Witness ==
    /\ cpc = "encoded" /\ dec # None
    /\ Len(cs) = 3 /\ Cardinality(AddrHashes(cs)) = 2
    /\ cs # SortChanges(cs)
    /\ DictSizeField(enc) = 2

(***************************************************************************)
(* Width of the dictionary index                                           *)
(***************************************************************************)
\* the largest index m fits in w bytes
Fits(w, m) == (w = 1 /\ m < 256) \/ (w = 2 /\ m < 65536) \/ w = 4 \/ w = 8

\* the smallest member of {1, 2, 4, 8} in which m fits (m below 2^31)
MinWidth(m) == IF m < 256 THEN 1 ELSE IF m < 65536 THEN 2 ELSE 4

\* the sizes at which one byte more than needed is chosen
WiderThanNeeded == {255, 256, 65535, 65536}

Reordered(s, p) == [i \in 1..Len(s) |-> s[p[i]]]

\* every ordering of the changes of cs encodes to the bytes enc
OrderIndependent ==
    \A p \in Permutations(1..Len(cs)) : EncodeStorage(Reordered(cs, p)) = enc

\* encoding what DecodeStorage returned gives the bytes enc again
ReencodeStable == dec.err = "nil" /\ EncodeStorage(dec.Changes) = enc

\* C19: EncodeStorage is canonical: any two orderings of the same changes
\* encode to identical bytes, and EncodeStorage(DecodeStorage(EncodeStorage(cs)))
\* equals EncodeStorage(cs)
C19_Canonical ==
    (cpc = "encoded" /\ enc = EncodeStorage(cs)) =>
        /\ OrderIndependent
        /\ dec # None => ReencodeStable

(***************************************************************************)
(* The change-set a block commit stores                                    *)
(***************************************************************************)
\* the writes of the block in the order of their key ids
WritesByKey ==
    LET ids == {KeyId(pending[i].a, pending[i].k) : i \in 1..Len(pending)}
        nth(n) == CHOOSE i \in 1..Len(pending) :
                     Cardinality({x \in ids : x < KeyId(pending[i].a, pending[i].k)}) = n - 1
    IN [n \in 1..Len(pending) |-> pending[nth(n)]]

\* the sorted list of (key, original value) pairs of the keys written
ExpectedChangeSet ==
    SortChanges([n \in 1..Len(pending) |->
                   [Key |-> CommitKey(WritesByKey[n].a, WritesByKey[n].k),
                    Value |-> WritesByKey[n].original]])

GetChangeSet(chg, b) ==
    IF b \in DOMAIN chg THEN [err |-> "nil", val |-> chg[b]] ELSE [err |-> "ErrKeyNotFound", val |-> <<>>]

\* the pre-images block b recorded when it was written, from the timeline
WrittenChangeSet(b) ==
    LET keys == {k \in DOMAIN timeline : \E i \in 1..Len(timeline[k]) : timeline[k][i].block = b}
    IN [k \in keys |-> (CHOOSE e \in {timeline[k][i] : i \in 1..Len(timeline[k])} : e.block = b).pre]

BlocksIndexed(idx, k) == UNION {{c.blocks[i] : i \in 1..Len(c.blocks)} : c \in ChunksOf(idx, k)}

RECURSIVE Delivered(_, _)
\* the (key, value) pairs of the list delivered with index i, in their order
Delivered(out, i) ==
    IF out = <<>> THEN <<>>
    ELSE IF out[1].Idx = i
    THEN <<[Key |-> out[1].Key, Value |-> out[1].Value]>> \o Delivered(Tail(out), i)
    ELSE Delivered(Tail(out), i)

\* the result of WalkAsOf for the start key and fixed bits of index i
WalkAsOfFor(i) ==
    LET start == wPos.starts[i]
        end == BlockEnd(start.key, start.g)
    IN AsOfFrom(wState, wHist, wBlock, start.key, IF end < LastKey THEN end ELSE LastKey)

\* C22: for every index i the pairs MultiWalkAsOf delivers with index i are
\* the result of WalkAsOf for startKeys[i] with fixedBits[i] at the block, in
\* ascending key order; a start key without a matching entry delivers
\* nothing, and every delivered key lies under the start key of its index
C22_MultiWalk ==
    wpc \in {"walking", "done"} =>
        /\ \A e \in {wOut[n] : n \in 1..Len(wOut)} :
              e.Idx \in 1..Len(wPos.starts) /\ MatchesStart(e.Key, wPos.starts[e.Idx]) /\ e.Key >= wPos.starts[e.Idx].key
        /\ \A i \in 1..Len(wPos.starts) :
              LET d == Delivered(wOut, i)
                  w == WalkAsOfFor(i)
              IN /\ Len(d) <= Len(w) /\ d = SubSeq(w, 1, Len(d))
                 /\ (wpc = "done" \/ i < wPos.idx) => d = w
        /\ (wpc = "done" /\ wState = TestState /\ wHist = TestHist /\ wPos.starts = TestStarts) =>
              /\ wBlock = 2 => wOut = <<[Idx |-> 1, Key |-> 1, Value |-> HistValue(1, 3)],
                                        [Idx |-> 2, Key |-> 3, Value |-> HistValue(3, 3)],
                                        [Idx |-> 3, Key |-> 7, Value |-> HistValue(7, 3)]>>
              /\ wBlock = 4 => wOut = <<[Idx |-> 1, Key |-> 1, Value |-> StateValue(1)],
                                        [Idx |-> 2, Key |-> 3, Value |-> HistValue(3, 5)],
                                        [Idx |-> 3, Key |-> 7, Value |-> HistValue(7, 5)]>>
              /\ wBlock = 6 => wOut = <<[Idx |-> 1, Key |-> 1, Value |-> StateValue(1)],
                                        [Idx |-> 2, Key |-> 3, Value |-> StateValue(3)]>>

\* the walk of the test at block 6: start key 7 has neither state nor history
C22_Witness ==
    /\ wpc = "done" /\ wState = TestState /\ wHist = TestHist /\ wPos.starts = TestStarts
    /\ wBlock = 6 /\ Len(wOut) = 2 /\ wPos.idx = 3

(***************************************************************************)
(* Early termination of WalkAsOf, as the dumper uses it                    *)
(***************************************************************************)
\* the entries the as-of walk would deliver if it were never stopped
FullWalk == AsOfFrom(wState, wHist, wBlock, 1, LastKey)

\* the entries of the sequence w that dump reports as accounts
RECURSIVE Reported(_)
Reported(w) ==
    IF w = <<>> THEN <<>>
    ELSE IF dump.kind[w[1].Key] = "account"
            \/ (dump.kind[w[1].Key] = "nopreimage" /\ ~dump.excludeMissingPreimages)
    THEN <<w[1].Key>> \o Reported(Tail(w))
    ELSE Reported(Tail(w))

\* C23: once the callback has returned false the walk is over: the entry it
\* returned false on is the last one read and the last one handed to the
\* callback, the cursors stay on it, and WalkAsOf returns no error; a dump
\* with maxResults > 0 reports at most maxResults accounts and returns as
\* next key the key the walk was stopped on (none when it was not stopped)
C23_EarlyStop ==
    /\ wOut = SubSeq(FullWalk, 1, Len(wOut))
    /\ dump.maxResults > 0 => Len(dump.accounts) <= dump.maxResults
    /\ dump.pc = "stopped" =>
          /\ wpc = "done" /\ dump.err = "nil"
          /\ wOut # <<>> /\ dump.nextKey = wOut[Len(wOut)].Key
          /\ NextKey(wPos) = dump.nextKey
          /\ dump.accounts = Reported(SubSeq(wOut, 1, Len(wOut) - 1))
          /\ Len(dump.accounts) = dump.maxResults
          /\ Len(wOut) < Len(FullWalk) => FullWalk[Len(wOut) + 1].Key > dump.nextKey
    /\ dump.pc = "finished" =>
          /\ wOut = FullWalk /\ dump.nextKey = NoKey /\ dump.err = "nil"
          /\ dump.accounts = Reported(FullWalk)

\* a walk stopped on key 2 after one account, with a later entry left unread
C23_Witness ==
    /\ dump.pc = "stopped" /\ dump.maxResults = 1 /\ dump.nextKey = 2
    /\ dump.accounts = <<1>> /\ Len(FullWalk) = 3 /\ Len(wOut) = 2

RECURSIVE SortedEntries(_)
\* the entries of a set in ascending bytewise order of their keys
SortedEntries(es) ==
    IF es = {} THEN <<>>
    ELSE LET m == CHOOSE e \in es : \A o \in es \ {e} : BytesLess(e.k, o.k)
         IN <<m>> \o SortedEntries(es \ {m})

\* what an iteration under the prefix must visit
ExpectedVisit ==
    LET es == SortedEntries({e \in kv.written : Len(e.k) >= Len(kv.prefix)
                                                /\ SubSeq(e.k, 1, Len(kv.prefix)) = kv.prefix})
    IN IF kv.mode = "novalues" THEN [i \in 1..Len(es) |-> [k |-> es[i].k, v |-> Len(es[i].v)]]
       ELSE es

RECURSIVE ExpectedRun(_, _)
\* the entries visited and the error returned from the i-th cursor call on
ExpectedRun(e, i) ==
    IF kv.cursorFailAt = i THEN [visited |-> SubSeq(e, 1, i - 1), ret |-> "io"]
    ELSE IF i > Len(e) THEN [visited |-> e, ret |-> "nil"]
    ELSE IF kv.mode # "loop" /\ kv.failAt = i THEN [visited |-> SubSeq(e, 1, i), ret |-> "walker"]
    ELSE IF kv.mode # "loop" /\ kv.stopAt = i THEN [visited |-> SubSeq(e, 1, i), ret |-> "nil"]
    ELSE ExpectedRun(e, i + 1)

\* C25: the bucket holds one entry per key put, the last value put; an
\* iteration visits the entries whose key starts with the prefix, each once,
\* in ascending bytewise order; Walk visits what the First/Next loop visits,
\* returns the first error of the cursor or of the walker and returns nil
\* when the walker returns false; the no-values cursor visits the same keys
C25_Iteration ==
    /\ {kv.bucket[i] : i \in 1..Len(kv.bucket)} = kv.written
    /\ Len(kv.bucket) = Cardinality({e.k : e \in kv.written})
    /\ \A i \in 1..(Len(kv.bucket) - 1) : BytesLess(kv.bucket[i].k, kv.bucket[i + 1].k)
    /\ kv.pc \in {"iter", "returned"} =>
          /\ Len(kv.visited) <= Len(ExpectedVisit)
          /\ kv.visited = SubSeq(ExpectedVisit, 1, Len(kv.visited))
    /\ kv.pc = "returned" =>
          /\ kv.visited = ExpectedRun(ExpectedVisit, 1).visited
          /\ kv.ret = ExpectedRun(ExpectedVisit, 1).ret

\* the four keys of testNoValuesIterator, visited in the order the test expects
C25_Witness ==
    /\ kv.pc = "returned" /\ kv.mode = "novalues" /\ kv.ret = "nil" /\ kv.store = "remote"
    /\ kv.visited = <<[k |-> <<0>>, v |-> 1], [k |-> <<0, 0, 1>>, v |-> 1],
                      [k |-> <<0, 1>>, v |-> 1], [k |-> <<1>>, v |-> 1]>>

(***************************************************************************)
(* The witness stack machine                                               *)
(***************************************************************************)
\* number of bits set in the mask of an instruction
BitsOf(mask) == Cardinality({i \in 0..17 : (mask \div (2 ^ i)) % 2 = 1})

RECURSIVE DepthAfter(_, _)
\* the stack depth after the instructions w run from depth d; -1 once an
\* instruction has no applicable rule
DepthAfter(w, d) ==
    IF w = <<>> THEN d
    ELSE IF w[1].op = "HASH" THEN DepthAfter(Tail(w), d + 1)
    ELSE IF BitsOf(w[1].arg) \in 2..16 /\ d >= BitsOf(w[1].arg)
    THEN DepthAfter(Tail(w), d - BitsOf(w[1].arg) + 1)
    ELSE -1

\* the instructions executed so far
Executed == SubSeq(wit.witness, 1, wit.cycles)

\* C26: every cycle dequeues one instruction; HASH pushes one item; BRANCH
\* applies only with 2 to 16 bits set and that many items on the stack and
\* replaces them with one; without an applicable rule the execution traps,
\* stops and has no result; a completed execution has one item on the stack
C26_StackMachine ==
    /\ wit.cycles <= Len(wit.witness)
    /\ wit.queue = SubSeq(wit.witness, wit.cycles + 1, Len(wit.witness))
    /\ wit.pc \in {"running", "completed", "invalid"} => Len(wit.stack) = DepthAfter(Executed, 0)
    /\ wit.pc = "trapped" =>
          /\ wit.cycles > 0 /\ wit.result = Nil
          /\ DepthAfter(SubSeq(wit.witness, 1, wit.cycles - 1), 0) >= 0
          /\ DepthAfter(Executed, 0) = -1
          /\ wit.witness[wit.cycles].op = "BRANCH"
    /\ wit.pc = "completed" =>
          /\ wit.queue = <<>> /\ Len(wit.stack) = 1 /\ wit.result = wit.stack[1]
    /\ wit.pc \in {"running", "invalid"} => wit.result = Nil

\* HASH h1; HASH h2; BRANCH 0b11 completed with one branch node on the stack
C26_Witness ==
    /\ wit.pc = "completed" /\ wit.cycles = 3 /\ wit.witness[3] = [op |-> "BRANCH", arg |-> 3]
    /\ wit.result.node.kind = "branch"

(***************************************************************************)
(* MAKE_VALUES_ARRAY                                                       *)
(***************************************************************************)
\* the number of set bits of mask below bit i
RankOf(mask, i) == Cardinality({j \in 0..(i - 1) : (mask \div (2 ^ j)) % 2 = 1})

\* C27: for a 16-bit mask and NBITSET(mask) values MAKE_VALUES_ARRAY returns
\* an array of exactly 16 elements with the k-th value at the index of the
\* k-th set bit (lowest first) and nil at every other index
C27_ValuesArray ==
    wit.pc = "made" =>
        /\ Len(wit.array) = 16
        /\ \A i \in 0..15 :
              wit.array[i + 1] = IF (wit.mask \div (2 ^ i)) % 2 = 1
                                 THEN wit.values[RankOf(wit.mask, i) + 1]
                                 ELSE Nil

(***************************************************************************)
(* Termination of generateIndex                                            *)
(***************************************************************************)
\* C28: generateIndex returns on every finite change-set table, and a walk
\* that is stopped for a flush has got strictly past the change-set key the
\* walk before it was stopped at
C28_Terminates ==
    /\ <>(gpc \in {"done", "failed"})
    /\ [][(gpc = "walking" /\ gpc' = "walked" /\ ~stop') => currentKey' > currentKey]_vars

(***************************************************************************)
(* The getNodeData flag under concurrent calls                             *)
(***************************************************************************)
\* C29: IsGetNodeData returns after at most two loads; the initialised flag
\* is never cleared; and an IsGetNodeData that returns while an
\* OverrideGetNodeData(v) has returned with no explicit Override or Restore
\* call after it returns v
C29_Override ==
    /\ \A p \in Procs : flags.procs[p].loads <= 2
    /\ flags.everInit => (flags.getNodeData \div 2) % 2 = 1
    /\ \A p \in Procs :
          flags.procs[p].retUnder # NoOverride => flags.procs[p].ret = flags.procs[p].retUnder

(***************************************************************************)
(* Invalidation of the Bodies stage                                        *)
(***************************************************************************)
\* what the database must show after the commit, from what it showed before
ExpectedStageDb ==
    LET i == stage.db0.inval
        p == stage.db0.progress
        n == stage.db0.postInval
    IN [progress |-> IF i < p THEN i ELSE p,
        inval |-> 0,
        postInval |-> IF stage.hasNext /\ (n = 0 \/ n > i) THEN i ELSE n]

\* C30: with a Bodies invalidation I # 0 the database shows, after the
\* commit, invalidation 0, progress I when I < P, and I as the next stage's
\* invalidation when that was 0 or greater than I; before the commit and
\* when the stage fails it shows what it showed at the start, never a part
\* of the writes; with invalidation 0 nothing is written; and when the
\* function has returned the cancel channel is closed
C30_Invalidation ==
    /\ stage.db0.inval # 0 =>
          /\ stage.db \in {stage.db0, ExpectedStageDb}
          /\ stage.committed => stage.db = ExpectedStageDb
          /\ ~stage.committed => stage.db = stage.db0
          /\ (stage.pc = "returned" /\ stage.err = "nil") => stage.committed
    /\ stage.db0.inval = 0 => stage.db = stage.db0 /\ ~stage.committed /\ stage.batch = EmptyBatch
    /\ stage.pc = "returned" => stage.cancelCh = "closed"
    /\ stage.pc \notin {"start", "returned"} => stage.cancelCh = "open"

\* progress 3 rolled back to 1 and the next stage's invalidation lowered from 2 to 1
C30_Witness ==
    /\ stage.pc = "returned" /\ stage.committed /\ stage.hasNext
    /\ stage.db0 = [progress |-> 3, inval |-> 1, postInval |-> 2]
    /\ stage.db = [progress |-> 1, inval |-> 0, postInval |-> 1]


====
